---- MODULE Spec2Model ----
(***************************************************************************)
(* Session store of the agent runtime (src/src/session/mod.rs): the        *)
(* in-memory cache `sessions` behind an RwLock, the optional storage       *)
(* directory, and the operations of SessionManager, each split at its      *)
(* await points (lock acquisition, disk I/O) so that tasks interleave      *)
(* exactly where the async code can be suspended.                          *)
(***************************************************************************)
EXTENDS Integers, Sequences, FiniteSets, TLC

\* ---------------------------------------------------------------- bounds
\* Longest message list a client hands to save.
MaxMsgs == 1
\* Number of client tasks sharing one SessionManager (Arc clone).
NumTasks == 2

Tasks == 1..NumTasks
\* The caller of the sequential specification.
SeqTask == 1
NoTask == 0

\* -------------------------------------------------------- option values
None == <<>>
Some(x) == <<x>>
IsSome(o) == o # <<>>
Unwrap(o) == o[1]

\* ------------------------------------------------------------ keys
\* A key is a sequence of characters.  ':' and '/' are two of the nine
\* characters sanitize_key replaces; '_' is the placeholder itself.
Illegal == {"/", "\\", ":", "*", "?", "\"", "<", ">", "|"}

\* Byte value of the characters used (String's Ord is bytewise).
Code(c) ==
    CASE c = "/" -> 47
      [] c = ":" -> 58
      [] c = "_" -> 95
      [] c = "a" -> 97
      [] c = "b" -> 98
      [] OTHER -> 63

Keys == { <<"a", ":">>, <<"a", "_">>, <<"b">> }

\* Only the first of the characters is replaced (replacen(.., 1)).
sanitize_key_FirstOnly(key) ==
    [i \in DOMAIN key |->
       IF key[i] \in Illegal /\ \A j \in 1..(i - 1) : key[j] \notin Illegal
       THEN "_" ELSE key[i]]

sanitize_key(key) ==
    [i \in DOMAIN key |-> IF key[i] \in Illegal THEN "_" ELSE key[i]]

\* ------------------------------------------------------------ messages
Message_user(content) ==
    [role |-> "User", content |-> content, tool_calls |-> None, tool_call_id |-> None]

Message_tool_result(id, content) ==
    [role |-> "Tool", content |-> content, tool_calls |-> None, tool_call_id |-> Some(id)]

ToolCall_new(id, name, arguments) ==
    [id |-> id, name |-> name, arguments |-> arguments]

Message_assistant_with_tools(content, calls) ==
    [role |-> "Assistant", content |-> content, tool_calls |-> Some(calls),
     tool_call_id |-> None]

Message_assistant(content) ==
    [role |-> "Assistant", content |-> content, tool_calls |-> None, tool_call_id |-> None]

\* The conversation of test_session_with_all_message_types, repeated: a
\* user turn, an assistant turn asking for a tool, the tool's result, the
\* assistant's answer.
TranscriptMsg(i) ==
    CASE i % 4 = 1 -> Message_user("Search for rust programming")
      [] i % 4 = 2 -> Message_assistant_with_tools("Let me search for that.",
                         <<ToolCall_new("call_1", "search", "q=rust")>>)
      [] i % 4 = 3 -> Message_tool_result("call_1", "Found 100 results")
      [] OTHER -> Message_assistant("I found 100 results about Rust.")

Transcript(n) == [i \in 1..n |-> TranscriptMsg(i)]

Session_new(key) == [key |-> key, messages |-> <<>>]

add_message(session, msg) == [session EXCEPT !.messages = Append(@, msg)]

\* Sessions a client can hand to save: a key and the first n messages of the
\* conversation, for the keys ks and the lengths lens.
SessionVals(ks, lens) ==
    { [key |-> k, messages |-> Transcript(n)] : k \in ks, n \in lens }

\* ------------------------------------------------- persisted documents
\* serde_json::to_string_pretty: the record with its optional fields left
\* out when they are None (tool_calls, tool_call_id).
SerializeMessage(m) ==
    <<"role", m.role>> \o <<"content", m.content>>
      \o (IF IsSome(m.tool_calls) THEN <<"tool_calls", Unwrap(m.tool_calls)>> ELSE <<>>)
      \o (IF IsSome(m.tool_call_id) THEN <<"tool_call_id", Unwrap(m.tool_call_id)>> ELSE <<>>)

Serialize(session) ==
    [kind |-> "json",
     key |-> session.key,
     messages |-> [i \in DOMAIN session.messages |-> SerializeMessage(session.messages[i])]]

\* Content that is not a session document (a truncated or foreign file).
Garbage == [kind |-> "garbage"]

\* Value of field `name` in a flat <<name, value, name, value, ...>> list.
Field(fields, name) ==
    LET at == { i \in DOMAIN fields : i % 2 = 1 /\ fields[i] = name }
    IN IF at = {} THEN None ELSE Some(fields[(CHOOSE i \in at : TRUE) + 1])

DeserializeMessage(fields) ==
    [role |-> Unwrap(Field(fields, "role")),
     content |-> Unwrap(Field(fields, "content")),
     tool_calls |-> Field(fields, "tool_calls"),
     tool_call_id |-> Field(fields, "tool_call_id")]

\* serde_json::from_str: Ok(session) or a Json error.
Deserialize(doc) ==
    IF doc.kind = "json"
    THEN [tag |-> "Ok",
          val |-> [key |-> doc.key,
                   messages |-> [i \in DOMAIN doc.messages |->
                                    DeserializeMessage(doc.messages[i])]]]
    ELSE [tag |-> "Err", kind |-> "Json"]

\* ------------------------------------------------------------ files
FileOf(key) == [stem |-> sanitize_key(key), ext |-> "json"]

\* A file of the storage directory that is no session record.
ForeignFile == [stem |-> <<"b">>, ext |-> "txt"]

FileNames == { FileOf(k) : k \in Keys } \cup { ForeignFile }

\* ------------------------------------------------------------ results
Ok(v) == [tag |-> "Ok", val |-> v]
Err(kind) == [tag |-> "Err", kind |-> kind]
NoRet == [tag |-> "None"]

\* ------------------------------------------------------------ state
VARIABLES
    sessions,      \* the cache: key -> Option<Session>           (mod.rs:58)
    storage_path,  \* Option<PathBuf>: None for new_memory()      (mod.rs:60)
    disk,          \* the storage directory: file name -> Option<content>
    lock,          \* the RwLock around `sessions`: writer and readers
    pc,            \* each task's position inside the operation it runs
    op,            \* the operation each task runs
    key,           \* its `key` argument
    session,       \* its `session` argument (save) or local (get, get_or_create)
    keys,          \* list's local `keys`
    ret,           \* what the operation returned
    pre,           \* cache and disk when the running call began (sequential runs)
    track,         \* the histories this run records: "saved", "prev", "last"
    saved,         \* per key, the session of its last successful save, while
                   \* no later save, delete or loss of the cache has touched it
    inbound,       \* the inbound message each agent round is processing
    queue,         \* per session key, the rounds waiting for it, first come first
    holder,        \* per session key, the round that is processing it
    arrived,       \* per session key, the inbound messages in order of arrival
    prev,          \* the get_or_create call that returned last, if no other
                   \* call returned since ("prev"); the call that returned
                   \* last, whichever it was ("last")
    round,         \* the agent loop's round for one inbound message
    shell          \* one call of the shell tool's execute, and its subprocess

LoopVars == <<inbound, queue, holder, arrived>>

ToolVars == <<round, shell>>

vars == <<sessions, storage_path, disk, lock, pc, op, key, session, keys, ret,
          pre, track, saved, LoopVars, prev, ToolVars>>

NoKey == <<>>

EmptyCache == [k \in Keys |-> None]

\* A storage directory holding no session record, only a foreign file.
EmptyDisk == [f \in FileNames |-> IF f = ForeignFile THEN Some(Garbage) ELSE None]

NoneSaved == [k \in Keys |-> None]

\* Keys stored under the same file as k (k among them).
Colliding(k) == { j \in Keys : sanitize_key(j) = sanitize_key(k) }

\* No inbound message is being processed.
NoRound ==
    [state |-> "Idle", cycles |-> 0, calls |-> <<>>, results |-> <<>>,
     finished |-> <<>>, limit |-> FALSE, reply |-> None]

\* execute has not been called.
NoShell ==
    [pc |-> "none", args |-> <<>>, workspace |-> <<>>, cmd |-> <<>>, timeout_secs |-> 0,
     proc |-> "none", clock |-> 0, ret |-> [tag |-> "None"]]

\* new_memory() or with_path(dir): an empty cache.
StoreInit(tracking) ==
    /\ sessions = EmptyCache
    /\ storage_path \in { None, Some("dir") }
    /\ disk = EmptyDisk
    /\ lock = [w |-> NoTask, r |-> {}]
    /\ pc = [t \in Tasks |-> "idle"]
    /\ op = [t \in Tasks |-> "none"]
    /\ key = [t \in Tasks |-> NoKey]
    /\ session = [t \in Tasks |-> None]
    /\ keys = [t \in Tasks |-> <<>>]
    /\ ret = [t \in Tasks |-> NoRet]
    /\ pre = None
    /\ track = tracking
    /\ saved = NoneSaved
    /\ inbound = [t \in Tasks |-> None]
    /\ queue = [k \in Keys |-> <<>>]
    /\ holder = [k \in Keys |-> NoTask]
    /\ arrived = [k \in Keys |-> <<>>]
    /\ prev = None

InitWith(tracking) ==
    /\ StoreInit(tracking)
    /\ round = NoRound
    /\ shell = NoShell

Init == InitWith({})

\* ------------------------------------------------------------ the lock
\* self.sessions.read().await
AcquireRead(t, from, to) ==
    /\ pc[t] = from
    /\ lock.w = NoTask
    /\ lock' = [lock EXCEPT !.r = @ \cup {t}]
    /\ pc' = [pc EXCEPT ![t] = to]

\* self.sessions.write().await
AcquireWrite(t, from, to) ==
    /\ pc[t] = from
    /\ lock.w = NoTask
    /\ lock.r = {}
    /\ lock' = [lock EXCEPT !.w = t]
    /\ pc' = [pc EXCEPT ![t] = to]

\* The guard goes out of scope.
Release(t) ==
    lock' = [w |-> IF lock.w = t THEN NoTask ELSE lock.w, r |-> lock.r \ {t}]

\* The map operations done under the lock.
CacheInsert(k, s) == sessions' = [sessions EXCEPT ![k] = Some(s)]
CacheRemove(k) == sessions' = [sessions EXCEPT ![k] = None]

Finish(t, r) ==
    /\ ret' = [ret EXCEPT ![t] = r]
    /\ pc' = [pc EXCEPT ![t] = "done"]

Persist == IsSome(storage_path)

\* Variables an operation's step never touches unless it says so.
Locals == <<key, session, keys, op, pre, track, saved, LoopVars, prev, ToolVars>>

\* ------------------------------------------------------ get_or_create
\* let sessions = self.sessions.read().await;
GetOrCreate_ReadLock(t) ==
    /\ AcquireRead(t, "goc_rlock", "goc_cached")
    /\ UNCHANGED <<sessions, storage_path, disk, ret, Locals>>

\* if let Some(session) = sessions.get(key) { return Ok(session.clone()) }
GetOrCreate_Cached(t) ==
    /\ pc[t] = "goc_cached"
    /\ Release(t)
    /\ IF IsSome(sessions[key[t]])
       THEN Finish(t, Ok(Unwrap(sessions[key[t]])))
       ELSE /\ pc' = [pc EXCEPT ![t] = IF Persist THEN "goc_exists" ELSE "goc_wlock_new"]
            /\ UNCHANGED ret
    /\ UNCHANGED <<sessions, storage_path, disk, Locals>>

\* The disk is never consulted: a missing cache entry always means a new session.
GetOrCreate_Exists_SkipDisk(t) ==
    /\ pc[t] = "goc_exists"
    /\ pc' = [pc EXCEPT ![t] = "goc_wlock_new"]
    /\ UNCHANGED <<sessions, storage_path, disk, lock, ret, Locals>>

\* if file_path.exists()
GetOrCreate_Exists(t) ==
    /\ pc[t] = "goc_exists"
    /\ pc' = [pc EXCEPT ![t] =
                IF IsSome(disk[FileOf(key[t])]) THEN "goc_read" ELSE "goc_wlock_new"]
    /\ UNCHANGED <<sessions, storage_path, disk, lock, ret, Locals>>

\* A record that cannot be read or parsed is discarded: the call goes on to
\* create a new session.
GetOrCreate_Read_Swallow(t) ==
    /\ pc[t] = "goc_read"
    /\ \E io_ok \in BOOLEAN :
         LET file == disk[FileOf(key[t])]
             parsed == IF IsSome(file) THEN Deserialize(Unwrap(file)) ELSE Err("Io")
         IN IF ~io_ok \/ parsed.tag = "Err"
            THEN pc' = [pc EXCEPT ![t] = "goc_wlock_new"] /\ UNCHANGED session
            ELSE /\ session' = [session EXCEPT ![t] = Some(parsed.val)]
                 /\ pc' = [pc EXCEPT ![t] = "goc_wlock_load"]
    /\ UNCHANGED <<sessions, storage_path, disk, lock, ret, key, keys, op, pre, track, saved, LoopVars, prev, ToolVars>>

\* let content = read_to_string(&file_path).await?;
\* let session: Session = serde_json::from_str(&content)?;
GetOrCreate_Read(t) ==
    /\ pc[t] = "goc_read"
    /\ \E io_ok \in BOOLEAN :
         LET file == disk[FileOf(key[t])]
         IN IF ~io_ok \/ ~IsSome(file)
            THEN Finish(t, Err("Io")) /\ UNCHANGED session
            ELSE LET parsed == Deserialize(Unwrap(file))
                 IN IF parsed.tag = "Err"
                    THEN Finish(t, parsed) /\ UNCHANGED session
                    ELSE /\ session' = [session EXCEPT ![t] = Some(parsed.val)]
                         /\ pc' = [pc EXCEPT ![t] = "goc_wlock_load"]
                         /\ UNCHANGED ret
    /\ UNCHANGED <<sessions, storage_path, disk, lock, key, keys, op, pre, track, saved, LoopVars, prev, ToolVars>>

\* let mut sessions = self.sessions.write().await;   (line 171)
GetOrCreate_WriteLockLoaded(t) ==
    /\ AcquireWrite(t, "goc_wlock_load", "goc_insert_load")
    /\ UNCHANGED <<sessions, storage_path, disk, ret, Locals>>

\* sessions.insert(key.to_string(), session.clone()); return Ok(session)
GetOrCreate_InsertLoaded(t) ==
    /\ pc[t] = "goc_insert_load"
    /\ CacheInsert(key[t], Unwrap(session[t]))
    /\ Release(t)
    /\ Finish(t, Ok(Unwrap(session[t])))
    /\ UNCHANGED <<storage_path, disk, Locals>>

\* let session = Session::new(key);
\* let mut sessions = self.sessions.write().await;   (line 179)
GetOrCreate_WriteLockNew(t) ==
    /\ AcquireWrite(t, "goc_wlock_new", "goc_insert_new")
    /\ session' = [session EXCEPT ![t] = Some(Session_new(key[t]))]
    /\ UNCHANGED <<sessions, storage_path, disk, ret, key, keys, op, pre, track, saved, LoopVars, prev, ToolVars>>

\* The new session is written to the disk as well as cached.
GetOrCreate_InsertNew_Persist(t) ==
    /\ pc[t] = "goc_insert_new"
    /\ CacheInsert(key[t], Unwrap(session[t]))
    /\ disk' = IF Persist
               THEN [disk EXCEPT ![FileOf(key[t])] = Some(Serialize(Unwrap(session[t])))]
               ELSE disk
    /\ Release(t)
    /\ Finish(t, Ok(Unwrap(session[t])))
    /\ UNCHANGED <<storage_path, Locals>>

\* sessions.insert(key.to_string(), session.clone()); Ok(session)
GetOrCreate_InsertNew(t) ==
    /\ pc[t] = "goc_insert_new"
    /\ CacheInsert(key[t], Unwrap(session[t]))
    /\ Release(t)
    /\ Finish(t, Ok(Unwrap(session[t])))
    /\ UNCHANGED <<storage_path, disk, Locals>>

get_or_create(t) ==
    \/ GetOrCreate_ReadLock(t)
    \/ GetOrCreate_Cached(t)
    \/ GetOrCreate_Exists(t)
    \/ GetOrCreate_Read(t)
    \/ GetOrCreate_WriteLockLoaded(t)
    \/ GetOrCreate_InsertLoaded(t)
    \/ GetOrCreate_WriteLockNew(t)
    \/ GetOrCreate_InsertNew(t)

\* ---------------------------------------------------------------- get
Get_ReadLock(t) ==
    /\ AcquireRead(t, "get_rlock", "get_cached")
    /\ UNCHANGED <<sessions, storage_path, disk, ret, Locals>>

\* if let Some(session) = sessions.get(key) { return Ok(Some(session.clone())) }
\* ... and, without a storage path, Ok(None)
Get_Cached(t) ==
    /\ pc[t] = "get_cached"
    /\ Release(t)
    /\ IF IsSome(sessions[key[t]])
       THEN Finish(t, Ok(Some(Unwrap(sessions[key[t]]))))
       ELSE IF Persist
            THEN pc' = [pc EXCEPT ![t] = "get_exists"] /\ UNCHANGED ret
            ELSE Finish(t, Ok(None))
    /\ UNCHANGED <<sessions, storage_path, disk, Locals>>

\* A key without a file is given a new session, as get_or_create does.
Get_Exists_Create(t) ==
    /\ pc[t] = "get_exists"
    /\ IF IsSome(disk[FileOf(key[t])])
       THEN pc' = [pc EXCEPT ![t] = "get_read"] /\ UNCHANGED <<ret, sessions>>
       ELSE /\ CacheInsert(key[t], Session_new(key[t]))
            /\ Finish(t, Ok(Some(Session_new(key[t]))))
    /\ UNCHANGED <<storage_path, disk, lock, Locals>>

\* if file_path.exists() ... else Ok(None)
Get_Exists(t) ==
    /\ pc[t] = "get_exists"
    /\ IF IsSome(disk[FileOf(key[t])])
       THEN pc' = [pc EXCEPT ![t] = "get_read"] /\ UNCHANGED ret
       ELSE Finish(t, Ok(None))
    /\ UNCHANGED <<sessions, storage_path, disk, lock, Locals>>

Get_Read(t) ==
    /\ pc[t] = "get_read"
    /\ \E io_ok \in BOOLEAN :
         LET file == disk[FileOf(key[t])]
         IN IF ~io_ok \/ ~IsSome(file)
            THEN Finish(t, Err("Io")) /\ UNCHANGED session
            ELSE LET parsed == Deserialize(Unwrap(file))
                 IN IF parsed.tag = "Err"
                    THEN Finish(t, parsed) /\ UNCHANGED session
                    ELSE /\ session' = [session EXCEPT ![t] = Some(parsed.val)]
                         /\ pc' = [pc EXCEPT ![t] = "get_wlock_load"]
                         /\ UNCHANGED ret
    /\ UNCHANGED <<sessions, storage_path, disk, lock, key, keys, op, pre, track, saved, LoopVars, prev, ToolVars>>

Get_WriteLockLoaded(t) ==
    /\ AcquireWrite(t, "get_wlock_load", "get_insert_load")
    /\ UNCHANGED <<sessions, storage_path, disk, ret, Locals>>

\* sessions.insert(key.to_string(), session.clone()); return Ok(Some(session))
Get_InsertLoaded(t) ==
    /\ pc[t] = "get_insert_load"
    /\ CacheInsert(key[t], Unwrap(session[t]))
    /\ Release(t)
    /\ Finish(t, Ok(Some(Unwrap(session[t]))))
    /\ UNCHANGED <<storage_path, disk, Locals>>

get(t) ==
    \/ Get_ReadLock(t)
    \/ Get_Cached(t)
    \/ Get_Exists(t)
    \/ Get_Read(t)
    \/ Get_WriteLockLoaded(t)
    \/ Get_InsertLoaded(t)

\* --------------------------------------------------------------- save
\* save(s) has returned Ok.
RecordSaved(s) ==
    saved' = IF "saved" \in track
             THEN [saved EXCEPT ![s.key] = Some([session |-> s, clean |-> TRUE])]
             ELSE saved

\* let mut sessions = self.sessions.write().await;
Save_WriteLock(t) ==
    /\ AcquireWrite(t, "save_wlock", "save_insert")
    /\ UNCHANGED <<sessions, storage_path, disk, ret, Locals>>

\* The cache is left as it was: only the disk learns of the save.
Save_Insert_NoCache(t) ==
    /\ pc[t] = "save_insert"
    /\ Release(t)
    /\ IF Persist
       THEN pc' = [pc EXCEPT ![t] = "save_write"] /\ UNCHANGED <<ret, saved>>
       ELSE Finish(t, Ok("unit")) /\ RecordSaved(Unwrap(session[t]))
    /\ UNCHANGED <<sessions, storage_path, disk, key, session, keys, op, pre, track, LoopVars, prev, ToolVars>>

\* The write guard is kept over the disk write.
Save_Insert_HoldLock(t) ==
    /\ pc[t] = "save_insert"
    /\ CacheInsert(Unwrap(session[t]).key, Unwrap(session[t]))
    /\ IF Persist
       THEN pc' = [pc EXCEPT ![t] = "save_write"] /\ UNCHANGED <<ret, saved, lock>>
       ELSE Release(t) /\ Finish(t, Ok("unit")) /\ RecordSaved(Unwrap(session[t]))
    /\ UNCHANGED <<storage_path, disk, key, session, keys, op, pre, track, LoopVars, prev, ToolVars>>

\* sessions.insert(session.key.clone(), session.clone());
Save_Insert(t) ==
    /\ pc[t] = "save_insert"
    /\ CacheInsert(Unwrap(session[t]).key, Unwrap(session[t]))
    /\ Release(t)
    /\ IF Persist
       THEN pc' = [pc EXCEPT ![t] = "save_write"] /\ UNCHANGED <<ret, saved>>
       ELSE Finish(t, Ok("unit")) /\ RecordSaved(Unwrap(session[t]))
    /\ UNCHANGED <<storage_path, disk, key, session, keys, op, pre, track, LoopVars, prev, ToolVars>>

\* What tokio::fs::write can do to the file: write it; fail before touching
\* it (create fails); fail after truncating it (write_all fails).
WriteOutcomes == { "ok", "fail_open", "fail_partial" }

\* let content = serde_json::to_string_pretty(session)?;
\* tokio::fs::write(&file_path, content).await?;
Save_Write(t) ==
    /\ pc[t] = "save_write"
    /\ \E outcome \in WriteOutcomes :
         LET s == Unwrap(session[t])
             file == FileOf(s.key)
         IN CASE outcome = "ok" ->
                   /\ disk' = [disk EXCEPT ![file] = Some(Serialize(s))]
                   /\ Finish(t, Ok("unit"))
                   /\ RecordSaved(s)
              [] outcome = "fail_open" ->
                   /\ UNCHANGED <<disk, saved>>
                   /\ Finish(t, Err("Io"))
              [] outcome = "fail_partial" ->
                   /\ disk' = [disk EXCEPT ![file] = Some(Garbage)]
                   /\ Finish(t, Err("Io"))
                   /\ UNCHANGED saved
    /\ UNCHANGED <<sessions, storage_path, lock, key, session, keys, op, pre, track, LoopVars, prev, ToolVars>>

save(t) ==
    \/ Save_WriteLock(t)
    \/ Save_Insert(t)
    \/ Save_Write(t)

\* ------------------------------------------------------------- delete
Delete_WriteLock(t) ==
    /\ AcquireWrite(t, "del_wlock", "del_remove")
    /\ UNCHANGED <<sessions, storage_path, disk, ret, Locals>>

\* The cache entry is left in place: only the file is removed.
Delete_Remove_KeepCache(t) ==
    /\ pc[t] = "del_remove"
    /\ Release(t)
    /\ IF Persist
       THEN pc' = [pc EXCEPT ![t] = "del_exists"] /\ UNCHANGED ret
       ELSE Finish(t, Ok("unit"))
    /\ UNCHANGED <<sessions, storage_path, disk, Locals>>

\* Every cache entry is removed, not only the key's.
Delete_Remove_Every(t) ==
    /\ pc[t] = "del_remove"
    /\ sessions' = EmptyCache
    /\ Release(t)
    /\ IF Persist
       THEN pc' = [pc EXCEPT ![t] = "del_exists"] /\ UNCHANGED ret
       ELSE Finish(t, Ok("unit"))
    /\ UNCHANGED <<storage_path, disk, Locals>>

\* sessions.remove(key);
Delete_Remove(t) ==
    /\ pc[t] = "del_remove"
    /\ CacheRemove(key[t])
    /\ Release(t)
    /\ IF Persist
       THEN pc' = [pc EXCEPT ![t] = "del_exists"] /\ UNCHANGED ret
       ELSE Finish(t, Ok("unit"))
    /\ UNCHANGED <<storage_path, disk, Locals>>

\* if file_path.exists()
Delete_Exists(t) ==
    /\ pc[t] = "del_exists"
    /\ IF IsSome(disk[FileOf(key[t])])
       THEN pc' = [pc EXCEPT ![t] = "del_unlink"] /\ UNCHANGED ret
       ELSE Finish(t, Ok("unit"))
    /\ UNCHANGED <<sessions, storage_path, disk, lock, Locals>>

\* tokio::fs::remove_file(&file_path).await?;
Delete_RemoveFile(t) ==
    /\ pc[t] = "del_unlink"
    /\ \E io_ok \in BOOLEAN :
         IF io_ok /\ IsSome(disk[FileOf(key[t])])
         THEN /\ disk' = [disk EXCEPT ![FileOf(key[t])] = None]
              /\ Finish(t, Ok("unit"))
         ELSE /\ UNCHANGED disk
              /\ Finish(t, Err("Io"))
    /\ UNCHANGED <<sessions, storage_path, lock, Locals>>

delete(t) ==
    \/ Delete_WriteLock(t)
    \/ Delete_Remove(t)
    \/ Delete_Exists(t)
    \/ Delete_RemoveFile(t)

\* --------------------------------------------------------------- list
\* String's ordering: bytewise lexicographic.
KeyLess(a, b) ==
    \/ /\ Len(a) < Len(b)
       /\ \A i \in 1..Len(a) : a[i] = b[i]
    \/ \E i \in 1..(IF Len(a) < Len(b) THEN Len(a) ELSE Len(b)) :
         /\ Code(a[i]) < Code(b[i])
         /\ \A j \in 1..(i - 1) : a[j] = b[j]

RECURSIVE InsertSorted(_, _)
InsertSorted(q, x) ==
    IF q = <<>> THEN <<x>>
    ELSE IF KeyLess(x, Head(q)) THEN <<x>> \o q
    ELSE <<Head(q)>> \o InsertSorted(Tail(q), x)

\* keys.sort()
RECURSIVE Sort(_)
Sort(q) == IF q = <<>> THEN <<>> ELSE InsertSorted(Sort(Tail(q)), Head(q))

Contains(q, x) == \E i \in DOMAIN q : q[i] = x

\* Every order in which a map or a directory may hand out its elements.
Orders(S) ==
    { q \in [1..Cardinality(S) -> S] : { q[i] : i \in DOMAIN q } = S }

\* The while-let loop over the directory entries (lines 333-343).
RECURSIVE PushStems(_, _)
PushStems(ks, entries) ==
    IF entries = <<>> THEN ks
    ELSE LET path == Head(entries)
             next == IF path.ext = "json" /\ ~Contains(ks, path.stem)
                     THEN Append(ks, path.stem)
                     ELSE ks
         IN PushStems(next, Tail(entries))

List_ReadLock(t) ==
    /\ AcquireRead(t, "list_rlock", "list_keys")
    /\ UNCHANGED <<sessions, storage_path, disk, ret, Locals>>

\* keys.extend(sessions.keys().cloned());  and, without a storage path,
\* keys.sort(); Ok(keys)
List_Keys(t) ==
    /\ pc[t] = "list_keys"
    /\ Release(t)
    /\ \E ks \in Orders({ k \in Keys : IsSome(sessions[k]) }) :
         IF Persist
         THEN /\ keys' = [keys EXCEPT ![t] = ks]
              /\ pc' = [pc EXCEPT ![t] = "list_readdir"]
              /\ UNCHANGED ret
         ELSE /\ keys' = [keys EXCEPT ![t] = Sort(ks)]
              /\ Finish(t, Ok(Sort(ks)))
    /\ UNCHANGED <<sessions, storage_path, disk, key, session, op, pre, track, saved, LoopVars, prev, ToolVars>>

\* The keys are returned as collected, without the final sort.
List_ReadDir_Unsorted(t) ==
    /\ pc[t] = "list_readdir"
    /\ \E io_ok \in BOOLEAN :
         IF io_ok
         THEN \E entries \in Orders({ f \in FileNames : IsSome(disk[f]) }) :
                LET ks == PushStems(keys[t], entries)
                IN /\ keys' = [keys EXCEPT ![t] = ks]
                   /\ Finish(t, Ok(ks))
         ELSE /\ UNCHANGED keys
              /\ Finish(t, Err("Io"))
    /\ UNCHANGED <<sessions, storage_path, disk, lock, key, session, op, pre, track, saved, LoopVars, prev, ToolVars>>

\* read_dir, the loop over its entries, keys.sort(); Ok(keys)
List_ReadDir(t) ==
    /\ pc[t] = "list_readdir"
    /\ \E io_ok \in BOOLEAN :
         IF io_ok
         THEN \E entries \in Orders({ f \in FileNames : IsSome(disk[f]) }) :
                LET ks == Sort(PushStems(keys[t], entries))
                IN /\ keys' = [keys EXCEPT ![t] = ks]
                   /\ Finish(t, Ok(ks))
         ELSE /\ UNCHANGED keys
              /\ Finish(t, Err("Io"))
    /\ UNCHANGED <<sessions, storage_path, disk, lock, key, session, op, pre, track, saved, LoopVars, prev, ToolVars>>

list(t) ==
    \/ List_ReadLock(t)
    \/ List_Keys(t)
    \/ List_ReadDir(t)

\* ------------------------------------------------------------- exists
Exists_ReadLock(t) ==
    /\ AcquireRead(t, "ex_rlock", "ex_cached")
    /\ UNCHANGED <<sessions, storage_path, disk, ret, Locals>>

\* if sessions.contains_key(key) { return true } ... false
Exists_Cached(t) ==
    /\ pc[t] = "ex_cached"
    /\ Release(t)
    /\ IF IsSome(sessions[key[t]])
       THEN Finish(t, Ok(TRUE))
       ELSE IF Persist
            THEN pc' = [pc EXCEPT ![t] = "ex_disk"] /\ UNCHANGED ret
            ELSE Finish(t, Ok(FALSE))
    /\ UNCHANGED <<sessions, storage_path, disk, Locals>>

\* The file is looked up under the key as given, not under its sanitized name.
Exists_Disk_RawKey(t) ==
    /\ pc[t] = "ex_disk"
    /\ LET f == [stem |-> key[t], ext |-> "json"]
       IN Finish(t, Ok(f \in FileNames /\ IsSome(disk[f])))
    /\ UNCHANGED <<sessions, storage_path, disk, lock, Locals>>

\* return file_path.exists();
Exists_Disk(t) ==
    /\ pc[t] = "ex_disk"
    /\ Finish(t, Ok(IsSome(disk[FileOf(key[t])])))
    /\ UNCHANGED <<sessions, storage_path, disk, lock, Locals>>

exists(t) ==
    \/ Exists_ReadLock(t)
    \/ Exists_Cached(t)
    \/ Exists_Disk(t)

\* ---------------------------------------------- clear_cache, cache_size
ClearCache_WriteLock(t) ==
    /\ AcquireWrite(t, "cc_wlock", "cc_clear")
    /\ UNCHANGED <<sessions, storage_path, disk, ret, Locals>>

\* The storage directory is emptied with the cache.
ClearCache_Clear_Disk(t) ==
    /\ pc[t] = "cc_clear"
    /\ sessions' = EmptyCache
    /\ disk' = [f \in FileNames |-> None]
    /\ Release(t)
    /\ Finish(t, Ok("unit"))
    /\ UNCHANGED <<storage_path, Locals>>

\* sessions.clear();
ClearCache_Clear(t) ==
    /\ pc[t] = "cc_clear"
    /\ sessions' = EmptyCache
    /\ Release(t)
    /\ Finish(t, Ok("unit"))
    /\ UNCHANGED <<storage_path, disk, Locals>>

clear_cache(t) ==
    \/ ClearCache_WriteLock(t)
    \/ ClearCache_Clear(t)

CacheSize_ReadLock(t) ==
    /\ AcquireRead(t, "cs_rlock", "cs_len")
    /\ UNCHANGED <<sessions, storage_path, disk, ret, Locals>>

\* sessions.len()
CacheSize_Len(t) ==
    /\ pc[t] = "cs_len"
    /\ Release(t)
    /\ Finish(t, Ok(Cardinality({ k \in Keys : IsSome(sessions[k]) })))
    /\ UNCHANGED <<sessions, storage_path, disk, Locals>>

cache_size(t) ==
    \/ CacheSize_ReadLock(t)
    \/ CacheSize_Len(t)

\* ------------------------------------------------------ calls, returns
FirstPc(o) ==
    CASE o = "get_or_create" -> "goc_rlock"
      [] o = "get" -> "get_rlock"
      [] o = "save" -> "save_wlock"
      [] o = "delete" -> "del_wlock"
      [] o = "list" -> "list_rlock"
      [] o = "exists" -> "ex_rlock"
      [] o = "clear_cache" -> "cc_wlock"
      [] o = "cache_size" -> "cs_rlock"

KeyOps == { "get_or_create", "get", "delete", "exists" }
PlainOps == { "list", "clear_cache", "cache_size" }

\* What a new call leaves of `saved`: a save or a delete of key k ends the
\* record of k, and marks the records of the other keys stored in k's file;
\* clear_cache ends every record of a manager that has no storage path.
SavedAfterCall(o, k, s) ==
    LET target == IF o = "save" THEN Unwrap(s).key ELSE k
    IN CASE o \in { "save", "delete" } ->
              [j \in Keys |->
                 IF j = target THEN None
                 ELSE IF j \in Colliding(target) /\ IsSome(saved[j])
                      THEN Some([Unwrap(saved[j]) EXCEPT !.clean = FALSE])
                      ELSE saved[j]]
         [] o = "clear_cache" /\ ~Persist -> NoneSaved
         [] OTHER -> saved

Snapshot == Some([sessions |-> sessions, disk |-> disk])

\* Task t calls operation o with key k and session argument s.  In a
\* sequential run no other call is in flight, and the cache and the disk of
\* that moment are remembered.
Call(t, o, k, s, sequential) ==
    /\ pc[t] = "idle"
    /\ sequential => \A u \in Tasks : pc[u] = "idle"
    /\ pc' = [pc EXCEPT ![t] = FirstPc(o)]
    /\ op' = [op EXCEPT ![t] = o]
    /\ key' = [key EXCEPT ![t] = k]
    /\ session' = [session EXCEPT ![t] = s]
    /\ pre' = IF sequential THEN Snapshot ELSE pre
    /\ saved' = IF "saved" \in track THEN SavedAfterCall(o, k, s) ELSE saved
    /\ UNCHANGED <<sessions, storage_path, disk, lock, keys, ret, track, LoopVars, prev, ToolVars>>

\* The caller has taken the result; the task is free for its next call.
Return(t) ==
    /\ pc[t] = "done"
    /\ ~IsSome(inbound[t])
    /\ pc' = [pc EXCEPT ![t] = "idle"]
    /\ op' = [op EXCEPT ![t] = "none"]
    /\ key' = [key EXCEPT ![t] = NoKey]
    /\ session' = [session EXCEPT ![t] = None]
    /\ keys' = [keys EXCEPT ![t] = <<>>]
    /\ ret' = [ret EXCEPT ![t] = NoRet]
    /\ pre' = None
    /\ prev' = IF "prev" \in track /\ op[t] = "get_or_create" /\ IsSome(pre)
               THEN Some([key |-> key[t], ret |-> ret[t],
                          before |-> Unwrap(pre).sessions[key[t]],
                          disk |-> Unwrap(pre).disk])
               ELSE IF "last" \in track
               THEN Some([op |-> op[t], key |-> key[t], ret |-> ret[t]])
               ELSE None
    /\ UNCHANGED <<sessions, storage_path, disk, lock, track, saved, LoopVars, ToolVars>>

Step(t) ==
    \/ get_or_create(t)
    \/ get(t)
    \/ save(t)
    \/ delete(t)
    \/ list(t)
    \/ exists(t)
    \/ clear_cache(t)
    \/ cache_size(t)
    \/ Return(t)

CallKeyOp(t, sequential) ==
    \E o \in KeyOps, k \in Keys : Call(t, o, k, None, sequential)

CallSave(t, sequential) ==
    \E s \in SessionVals(Keys, 0..MaxMsgs) : Call(t, "save", NoKey, Some(s), sequential)

CallPlainOp(t, sequential) ==
    \E o \in PlainOps : Call(t, o, NoKey, None, sequential)

\* One call at a time: the operations as a single caller sees them.
Next ==
    \/ CallKeyOp(SeqTask, TRUE)
    \/ CallSave(SeqTask, TRUE)
    \/ CallPlainOp(SeqTask, TRUE)
    \/ Step(SeqTask)

Spec == Init /\ [][Next]_vars

\* ------------------------------------------------ save and reload
\* Length of the conversation saved in the round-trip runs: every kind of
\* message occurs in it.
MaxTranscript == 4

\* Two keys stored under the same file.
RoundTripKeys == { <<"a", ":">>, <<"a", "_">> }

\* A new manager on the same storage path (with_path): the old manager's
\* cache is gone, the directory is as it was left.
with_path(sequential) ==
    /\ Persist
    /\ sequential => \A u \in Tasks : pc[u] = "idle"
    /\ sessions' = EmptyCache
    /\ UNCHANGED <<storage_path, disk, lock, pc, op, key, session, keys, ret,
                   pre, track, saved, LoopVars, prev, ToolVars>>

NextRoundTrip ==
    \/ \E s \in SessionVals(RoundTripKeys, { 0, MaxTranscript }) :
          Call(SeqTask, "save", NoKey, Some(s), TRUE)
    \/ \E o \in { "get", "get_or_create" }, k \in RoundTripKeys :
          Call(SeqTask, o, k, None, TRUE)
    \/ Call(SeqTask, "clear_cache", NoKey, None, TRUE)
    \/ with_path(TRUE)
    \/ save(SeqTask)
    \/ get(SeqTask)
    \/ get_or_create(SeqTask)
    \/ clear_cache(SeqTask)
    \/ Return(SeqTask)

SpecRoundTrip == InitWith({ "saved" }) /\ [][NextRoundTrip]_vars

\* ------------------------------------------- get_or_create, twice
\* The operations that change what get_or_create finds, and get_or_create,
\* with the last get_or_create call remembered.
NextTwice ==
    \/ \E k \in Keys : Call(SeqTask, "get_or_create", k, None, TRUE)
    \/ \E k \in Keys : Call(SeqTask, "delete", k, None, TRUE)
    \/ CallSave(SeqTask, TRUE)
    \/ Call(SeqTask, "clear_cache", NoKey, None, TRUE)
    \/ get_or_create(SeqTask)
    \/ delete(SeqTask)
    \/ save(SeqTask)
    \/ clear_cache(SeqTask)
    \/ Return(SeqTask)

SpecTwice == InitWith({ "prev" }) /\ [][NextTwice]_vars

\* ------------------------------------------------- concurrent saves
ConcurrentKeys == { <<"a", ":">>, <<"b">> }

\* Every task calls save once, at any time.
NextConcurrentSaves ==
    \E t \in Tasks :
        \/ \E s \in SessionVals(ConcurrentKeys, 0..MaxMsgs) :
              Call(t, "save", NoKey, Some(s), FALSE)
        \/ save(t)

SpecConcurrentSaves == Init /\ [][NextConcurrentSaves]_vars

\* ------------------------------------------------------ save and list
\* Sessions are saved and listed, by one manager or by a later one.
NextSaveList ==
    \/ CallSave(SeqTask, TRUE)
    \/ \E o \in { "list", "clear_cache" } : Call(SeqTask, o, NoKey, None, TRUE)
    \/ save(SeqTask)
    \/ list(SeqTask)
    \/ clear_cache(SeqTask)
    \/ Return(SeqTask)

SpecSaveList == InitWith({ "saved" }) /\ [][NextSaveList]_vars

\* ------------------------------------------- keys and file names
\* save, get, delete, exists and clear_cache, by one manager, on two keys
\* with one file name, with the last save of each key and the last call
\* remembered.
NextSanitized ==
    \/ \E s \in SessionVals(RoundTripKeys, 0..MaxMsgs) :
          Call(SeqTask, "save", NoKey, Some(s), TRUE)
    \/ \E o \in { "get", "delete", "exists" }, k \in RoundTripKeys :
          Call(SeqTask, o, k, None, TRUE)
    \/ Call(SeqTask, "clear_cache", NoKey, None, TRUE)
    \/ save(SeqTask)
    \/ get(SeqTask)
    \/ delete(SeqTask)
    \/ exists(SeqTask)
    \/ clear_cache(SeqTask)
    \/ Return(SeqTask)

SpecSanitized == InitWith({ "saved", "last" }) /\ [][NextSanitized]_vars

\* ------------------------------------------- concurrent operations
\* Every task calls any operation at any time, on two keys with different
\* file names; the sessions saved are new ones.
NextConcurrent ==
    \E t \in Tasks :
        \/ \E o \in KeyOps, k \in ConcurrentKeys : Call(t, o, k, None, FALSE)
        \/ \E s \in SessionVals(ConcurrentKeys, { 0 }) :
              Call(t, "save", NoKey, Some(s), FALSE)
        \/ \E o \in PlainOps : Call(t, o, NoKey, None, FALSE)
        \/ Step(t)

SpecConcurrent == Init /\ [][NextConcurrent]_vars

\* ------------------------------------------------- sessions handed out
\* test_session_save_and_load: the caller keeps the session that get or
\* get_or_create returned, appends to it, and may save it.

\* The caller holds a session returned by get or get_or_create.
Holds(t) ==
    /\ pc[t] = "done"
    /\ op[t] \in { "get", "get_or_create" }
    /\ ret[t].tag = "Ok"
    /\ op[t] = "get" => IsSome(ret[t].val)

Held(t) == IF op[t] = "get" THEN Unwrap(ret[t].val) ELSE ret[t].val

Hold(t, s) == IF op[t] = "get" THEN Ok(Some(s)) ELSE Ok(s)

\* The session handed out is the cache entry itself: what is appended to it
\* is appended in the cache.
Client_Append_Shared(t) ==
    /\ Holds(t)
    /\ Len(Held(t).messages) < MaxMsgs
    /\ LET s == add_message(Held(t), TranscriptMsg(Len(Held(t).messages) + 1))
       IN /\ ret' = [ret EXCEPT ![t] = Hold(t, s)]
          /\ CacheInsert(key[t], s)
    /\ UNCHANGED <<storage_path, disk, lock, pc, op, key, session, keys,
                   pre, track, saved, LoopVars, prev, ToolVars>>

\* session.add_message(Message::user("Hello")), on the caller's clone
\* (mod.rs:159, 172-173, 179-181: session.clone()).
Client_Append(t) ==
    /\ Holds(t)
    /\ Len(Held(t).messages) < MaxMsgs
    /\ ret' = [ret EXCEPT ![t] =
                 Hold(t, add_message(Held(t), TranscriptMsg(Len(Held(t).messages) + 1)))]
    /\ UNCHANGED <<sessions, storage_path, disk, lock, pc, op, key, session, keys,
                   pre, track, saved, LoopVars, prev, ToolVars>>

\* manager.save(&session), with the session the caller holds.
Client_Save(t) ==
    /\ Holds(t)
    /\ pc' = [pc EXCEPT ![t] = FirstPc("save")]
    /\ op' = [op EXCEPT ![t] = "save"]
    /\ key' = [key EXCEPT ![t] = NoKey]
    /\ session' = [session EXCEPT ![t] = Some(Held(t))]
    /\ ret' = [ret EXCEPT ![t] = NoRet]
    /\ pre' = Snapshot
    /\ UNCHANGED <<sessions, storage_path, disk, lock, keys, track, saved,
                   LoopVars, prev, ToolVars>>

NextCopies ==
    \/ \E o \in { "get", "get_or_create", "delete" }, k \in ConcurrentKeys :
          Call(SeqTask, o, k, None, TRUE)
    \/ Call(SeqTask, "clear_cache", NoKey, None, TRUE)
    \/ Client_Append(SeqTask)
    \/ Client_Save(SeqTask)
    \/ get(SeqTask)
    \/ get_or_create(SeqTask)
    \/ save(SeqTask)
    \/ delete(SeqTask)
    \/ clear_cache(SeqTask)
    \/ Return(SeqTask)

SpecCopies == Init /\ [][NextCopies]_vars

\* ------------------------------------------------------- clear_cache
\* The only key that is saved; the other keys are looked up, and created by
\* get_or_create, but never saved.
ClearSavedKeys == { <<"a", ":">> }

\* test_session_clear_cache, test_file_persistence_list: sessions are saved
\* and created, the cache is cleared, and the keys are looked up again.
NextClear ==
    \/ \E s \in SessionVals(ClearSavedKeys, 0..MaxMsgs) :
          Call(SeqTask, "save", NoKey, Some(s), TRUE)
    \/ \E o \in { "get", "get_or_create", "exists" }, k \in Keys :
          Call(SeqTask, o, k, None, TRUE)
    \/ \E o \in { "clear_cache", "cache_size" } : Call(SeqTask, o, NoKey, None, TRUE)
    \/ save(SeqTask)
    \/ get(SeqTask)
    \/ get_or_create(SeqTask)
    \/ exists(SeqTask)
    \/ clear_cache(SeqTask)
    \/ cache_size(SeqTask)
    \/ Return(SeqTask)

SpecClear == InitWith({ "saved", "last" }) /\ [][NextClear]_vars

\* ------------------------------------------------------ sanitize_key
\* test_sanitize_key: the function applied to a key, and again to its result.
MaxKeyLen == 2

\* The nine characters, the placeholder and a letter.
KeyChars == Illegal \cup { "_", "a" }

KeyStrings == UNION { [1..n -> KeyChars] : n \in 0..MaxKeyLen }

SanitizeFrame ==
    UNCHANGED <<sessions, storage_path, disk, lock, op, session, keys,
                pre, track, saved, LoopVars, ToolVars>>

\* SessionManager::sanitize_key(key)
Sanitize_Key ==
    /\ pc[SeqTask] = "idle"
    /\ \E k \in KeyStrings :
         /\ key' = [key EXCEPT ![SeqTask] = k]
         /\ ret' = [ret EXCEPT ![SeqTask] = Ok(sanitize_key(k))]
    /\ pc' = [pc EXCEPT ![SeqTask] = "sanitized"]
    /\ UNCHANGED prev
    /\ SanitizeFrame

\* SessionManager::sanitize_key(..) of the result; the key it came from is
\* remembered.
Sanitize_Again ==
    /\ pc[SeqTask] = "sanitized"
    /\ key' = [key EXCEPT ![SeqTask] = ret[SeqTask].val]
    /\ ret' = [ret EXCEPT ![SeqTask] = Ok(sanitize_key(ret[SeqTask].val))]
    /\ pc' = [pc EXCEPT ![SeqTask] = "sanitized_again"]
    /\ prev' = Some([op |-> "sanitize_key", key |-> key[SeqTask], ret |-> ret[SeqTask]])
    /\ SanitizeFrame

NextSanitize ==
    \/ Sanitize_Key
    \/ Sanitize_Again

SpecSanitize == Init /\ [][NextSanitize]_vars

\* ------------------------------------------- a save among lookups
RaceKey == <<"b">>

\* One task saves sessions of a key, one call after the other, while every
\* task looks the key up with get and get_or_create at any time.
NextLookupRace ==
    \/ \E s \in SessionVals({ RaceKey }, 0..MaxMsgs) :
          Call(SeqTask, "save", NoKey, Some(s), FALSE)
    \/ save(SeqTask)
    \/ \E t \in Tasks :
          \/ \E o \in { "get", "get_or_create" } : Call(t, o, RaceKey, None, FALSE)
          \/ get(t)
          \/ get_or_create(t)
          \/ Return(t)

SpecLookupRace == InitWith({ "saved" }) /\ [][NextLookupRace]_vars

\* ------------------------------------------- a save and a delete
\* One task saves sessions of a key while the other tasks delete the key.
NextSaveDelete ==
    \/ \E s \in SessionVals({ RaceKey }, 0..MaxMsgs) :
          Call(SeqTask, "save", NoKey, Some(s), FALSE)
    \/ save(SeqTask)
    \/ \E t \in Tasks \ { SeqTask } :
          \/ Call(t, "delete", RaceKey, None, FALSE)
          \/ delete(t)
    \/ \E t \in Tasks : Return(t)

SpecSaveDelete == Init /\ [][NextSaveDelete]_vars

\* ------------------------------------------ unsynchronized writers
\* test_concurrent_access: every task is spawned once; it calls
\* get_or_create, appends its message to the copy it got, and saves the copy.
\* When all have finished the session is read with get.
WriterKey == <<"a", ":">>

\* tokio::spawn(async move { manager_clone.get_or_create("concurrent") ...
Writer_Spawn(t) ==
    /\ pc[t] = "idle"
    /\ ~Contains(arrived[WriterKey], t)
    /\ inbound' = [inbound EXCEPT ![t] = Some([session_key |-> WriterKey, content |-> t])]
    /\ arrived' = [arrived EXCEPT ![WriterKey] = Append(@, t)]
    /\ pc' = [pc EXCEPT ![t] = FirstPc("get_or_create")]
    /\ op' = [op EXCEPT ![t] = "get_or_create"]
    /\ key' = [key EXCEPT ![t] = WriterKey]
    /\ UNCHANGED <<sessions, storage_path, disk, lock, session, keys, ret,
                   pre, track, saved, queue, holder, prev, ToolVars>>

\* The task is over, by its last statement or by a panic of unwrap().
EndTask(t) ==
    /\ inbound' = [inbound EXCEPT ![t] = None]
    /\ pc' = [pc EXCEPT ![t] = "idle"]
    /\ op' = [op EXCEPT ![t] = "none"]
    /\ key' = [key EXCEPT ![t] = NoKey]
    /\ session' = [session EXCEPT ![t] = None]
    /\ ret' = [ret EXCEPT ![t] = NoRet]

\* session.add_message(Message::user(..)); manager_clone.save(&session)
Writer_Append(t) ==
    /\ pc[t] = "done"
    /\ op[t] = "get_or_create"
    /\ IsSome(inbound[t])
    /\ IF ret[t].tag = "Ok"
       THEN /\ session' = [session EXCEPT ![t] =
                 Some(add_message(ret[t].val, Message_user(Unwrap(inbound[t]).content)))]
            /\ pc' = [pc EXCEPT ![t] = FirstPc("save")]
            /\ op' = [op EXCEPT ![t] = "save"]
            /\ ret' = [ret EXCEPT ![t] = NoRet]
            /\ UNCHANGED <<key, inbound>>
       ELSE EndTask(t)
    /\ UNCHANGED <<sessions, storage_path, disk, lock, keys, pre, track, saved,
                   queue, holder, arrived, prev, ToolVars>>

\* save has returned: the task ends.
Writer_Finish(t) ==
    /\ pc[t] = "done"
    /\ op[t] = "save"
    /\ IsSome(inbound[t])
    /\ EndTask(t)
    /\ UNCHANGED <<sessions, storage_path, disk, lock, keys, pre, track, saved,
                   queue, holder, arrived, prev, ToolVars>>

\* Every task has been spawned and has finished.
AllWritersDone ==
    /\ \A t \in Tasks : Contains(arrived[WriterKey], t)
    /\ \A t \in Tasks : ~IsSome(inbound[t])

\* for handle in handles { handle.await }; manager.get("concurrent")
Writer_FinalGet ==
    /\ AllWritersDone
    /\ Call(SeqTask, "get", WriterKey, None, TRUE)

\* The first task to get the session caches it and every save caches it
\* again, so the final get is served from the cache.
NextWriters ==
    \/ \E t \in Tasks :
          \/ Writer_Spawn(t)
          \/ get_or_create(t)
          \/ Writer_Append(t)
          \/ save(t)
          \/ Writer_Finish(t)
    \/ Writer_FinalGet
    \/ Get_ReadLock(SeqTask)
    \/ Get_Cached(SeqTask)
    \/ Return(SeqTask)

SpecWriters == Init /\ [][NextWriters]_vars

\* ------------------------------------------------ one round of the loop
\* The orchestration state machine for one inbound message:
\* Idle -> Loading -> BuildingContext -> AwaitingProvider ->
\* { Persisting | ExecutingTools -> BuildingContext } -> Done, or Failed on a
\* round-fatal error.  The session is loaded with get_or_create and persisted
\* with save.
MaxToolRounds == 2
MaxCalls == 2

RoundKey == <<"b">>
ToolNames == { "shell", "missing_tool" }
Registry == { "shell" }
InboundText == "list the files"
AnswerText == "here are the files"
LimitText == "tool round limit reached"

SetRound(state) == round' = [round EXCEPT !.state = state]

\* The session is to be persisted: save is called.
StartSave(t) ==
    /\ pc' = [pc EXCEPT ![t] = FirstPc("save")]
    /\ op' = [op EXCEPT ![t] = "save"]
    /\ ret' = [ret EXCEPT ![t] = NoRet]

\* An inbound message for the key: load or create its session.
Round_Inbound(t) ==
    /\ round.state = "Idle"
    /\ pc[t] = "idle"
    /\ inbound' = [inbound EXCEPT ![t] =
                     Some([session_key |-> RoundKey, content |-> InboundText])]
    /\ pc' = [pc EXCEPT ![t] = FirstPc("get_or_create")]
    /\ op' = [op EXCEPT ![t] = "get_or_create"]
    /\ key' = [key EXCEPT ![t] = RoundKey]
    /\ SetRound("Loading")
    /\ UNCHANGED <<sessions, storage_path, disk, lock, session, keys, ret,
                   pre, track, saved, queue, holder, arrived, prev, shell>>

\* The session is loaded: append the User message.  A load error is fatal to
\* the round.
Round_AppendUser(t) ==
    /\ round.state = "Loading"
    /\ pc[t] = "done"
    /\ op[t] = "get_or_create"
    /\ IF ret[t].tag = "Ok"
       THEN /\ session' = [session EXCEPT ![t] =
                 Some(add_message(ret[t].val, Message_user(Unwrap(inbound[t]).content)))]
            /\ SetRound("BuildingContext")
       ELSE /\ SetRound("Failed")
            /\ UNCHANGED session
    /\ pc' = [pc EXCEPT ![t] = "round"]
    /\ UNCHANGED <<sessions, storage_path, disk, lock, op, key, keys, ret,
                   pre, track, saved, LoopVars, prev, shell>>

\* Every tool round is unbounded: the provider is asked again however many
\* rounds have run (up to the exploration's cap).
Round_BuildContext_NoLimit(t) ==
    /\ round.state = "BuildingContext"
    /\ pc[t] = "round"
    /\ round.cycles <= MaxToolRounds
    /\ SetRound("AwaitingProvider")
    /\ UNCHANGED <<sessions, storage_path, disk, lock, pc, op, key, session, keys, ret,
                   pre, track, saved, LoopVars, prev, shell>>

\* BuildingContext, under the round-limit policy: with tool rounds left the
\* provider is asked; with none left the round ends with a synthesized
\* Assistant message, persisted like a final answer.
Round_BuildContext(t) ==
    /\ round.state = "BuildingContext"
    /\ pc[t] = "round"
    /\ IF round.cycles < MaxToolRounds
       THEN /\ SetRound("AwaitingProvider")
            /\ UNCHANGED <<pc, op, ret, session>>
       ELSE /\ session' = [session EXCEPT ![t] =
                 Some(add_message(Unwrap(session[t]), Message_assistant(LimitText)))]
            /\ round' = [round EXCEPT !.state = "Persisting", !.limit = TRUE]
            /\ StartSave(t)
    /\ UNCHANGED <<sessions, storage_path, disk, lock, key, keys,
                   pre, track, saved, LoopVars, prev, shell>>

\* The ToolCalls a provider may ask for in tool round c: one to MaxCalls
\* calls, their ids unique, each naming a registered tool or an unknown one.
ToolCallsOf(c) ==
    { [i \in 1..n |-> ToolCall_new(<<c, i>>, names[i], "{}")] :
        n \in 1..MaxCalls, names \in [1..MaxCalls -> ToolNames] }

\* AwaitingProvider: the provider answers with a final text, with an
\* Assistant message carrying ToolCalls, or fails.
Round_Provider(t) ==
    /\ round.state = "AwaitingProvider"
    /\ pc[t] = "round"
    /\ \/ /\ session' = [session EXCEPT ![t] =
                 Some(add_message(Unwrap(session[t]), Message_assistant(AnswerText)))]
          /\ SetRound("Persisting")
          /\ StartSave(t)
       \/ \E calls \in ToolCallsOf(round.cycles + 1) :
            /\ session' = [session EXCEPT ![t] =
                 Some(add_message(Unwrap(session[t]),
                                  Message_assistant_with_tools("", calls)))]
            /\ round' = [round EXCEPT !.state = "ExecutingTools",
                                      !.calls = calls,
                                      !.results = [i \in DOMAIN calls |-> None],
                                      !.finished = <<>>]
            /\ UNCHANGED <<pc, op, ret>>
       \/ /\ SetRound("Failed")
          /\ UNCHANGED <<pc, op, ret, session>>
    /\ UNCHANGED <<sessions, storage_path, disk, lock, key, keys,
                   pre, track, saved, LoopVars, prev, shell>>

\* What executing a call yields: an error description for an unknown tool,
\* the tool's text for a registered one.  (A tool's own error is a text like
\* any other to the loop.)
ToolOutcomes(call) ==
    IF call.name \in Registry
    THEN { "tool output" }
    ELSE { "tool error: unknown tool" }

\* ExecutingTools: the calls run independently; call i finishes.
Round_ToolFinish(t, i) ==
    /\ round.state = "ExecutingTools"
    /\ pc[t] = "round"
    /\ i \in DOMAIN round.calls
    /\ ~IsSome(round.results[i])
    /\ \E text \in ToolOutcomes(round.calls[i]) :
         round' = [round EXCEPT !.results[i] = Some(text),
                                !.finished = Append(@, i)]
    /\ UNCHANGED <<sessions, storage_path, disk, lock, pc, op, key, session, keys, ret,
                   pre, track, saved, LoopVars, prev, shell>>

\* The Tool-role messages of the calls, in the order given.
RECURSIVE ToolMessages(_, _, _)
ToolMessages(calls, results, order) ==
    IF order = <<>> THEN <<>>
    ELSE <<Message_tool_result(calls[Head(order)].id, Unwrap(results[Head(order)]))>>
           \o ToolMessages(calls, results, Tail(order))

\* The results are appended in the order in which the tools finished.
Round_AppendResults_AsFinished(t) ==
    /\ round.state = "ExecutingTools"
    /\ pc[t] = "round"
    /\ \A i \in DOMAIN round.results : IsSome(round.results[i])
    /\ session' = [session EXCEPT ![t] =
          Some([Unwrap(session[t]) EXCEPT !.messages =
                  @ \o ToolMessages(round.calls, round.results, round.finished)])]
    /\ round' = [round EXCEPT !.state = "BuildingContext", !.cycles = @ + 1,
                              !.calls = <<>>, !.results = <<>>]
    /\ UNCHANGED <<sessions, storage_path, disk, lock, pc, op, key, keys, ret,
                   pre, track, saved, LoopVars, prev, shell>>

\* All calls of the round have finished: their results are appended in the
\* order of the ToolCalls, and the loop goes back to BuildingContext.
Round_AppendResults(t) ==
    /\ round.state = "ExecutingTools"
    /\ pc[t] = "round"
    /\ \A i \in DOMAIN round.results : IsSome(round.results[i])
    /\ session' = [session EXCEPT ![t] =
          Some([Unwrap(session[t]) EXCEPT !.messages =
                  @ \o ToolMessages(round.calls, round.results,
                                    [i \in DOMAIN round.calls |-> i])])]
    /\ round' = [round EXCEPT !.state = "BuildingContext", !.cycles = @ + 1,
                              !.calls = <<>>, !.results = <<>>]
    /\ UNCHANGED <<sessions, storage_path, disk, lock, pc, op, key, keys, ret,
                   pre, track, saved, LoopVars, prev, shell>>

\* save has returned: the last message is emitted as the reply, or the
\* caller is told that persistence failed.
Round_Done(t) ==
    /\ round.state = "Persisting"
    /\ pc[t] = "done"
    /\ op[t] = "save"
    /\ IF ret[t].tag = "Ok"
       THEN LET msgs == Unwrap(session[t]).messages
            IN round' = [round EXCEPT !.state = "Done",
                                      !.reply = Some(msgs[Len(msgs)].content)]
       ELSE SetRound("Failed")
    /\ pc' = [pc EXCEPT ![t] = "round"]
    /\ UNCHANGED <<sessions, storage_path, disk, lock, op, key, session, keys, ret,
                   pre, track, saved, LoopVars, prev, shell>>

\* The manager starts empty, so the session is created, never read from disk.
NextRound ==
    \/ Round_Inbound(SeqTask)
    \/ GetOrCreate_ReadLock(SeqTask)
    \/ GetOrCreate_Cached(SeqTask)
    \/ GetOrCreate_Exists(SeqTask)
    \/ GetOrCreate_WriteLockNew(SeqTask)
    \/ GetOrCreate_InsertNew(SeqTask)
    \/ Round_AppendUser(SeqTask)
    \/ Round_BuildContext(SeqTask)
    \/ Round_Provider(SeqTask)
    \/ \E i \in 1..MaxCalls : Round_ToolFinish(SeqTask, i)
    \/ Round_AppendResults(SeqTask)
    \/ save(SeqTask)
    \/ Round_Done(SeqTask)

SpecRound == Init /\ [][NextRound]_vars

\* The same, with every task polled and every provider and tool call
\* answered in the end.
SpecRoundFair == SpecRound /\ WF_vars(NextRound)

\* ------------------------------------------------------ the shell tool
\* ShellTool::execute (tools/shell.rs:72-121) and the subprocess it starts.
\* Time is counted in seconds from the start of the timeout.
DefaultTimeout == 60
MaxTimeoutArg == 2

\* The 'timeout' argument: absent, a u64, or a value as_u64() rejects.
TimeoutArgs ==
    { [kind |-> "absent", val |-> 0], [kind |-> "other", val |-> 0] }
      \cup { [kind |-> "u64", val |-> n] : n \in 0..MaxTimeoutArg }

\* The 'command' field of the arguments: absent, a JSON string, or a JSON
\* value of another type.
CommandArgs ==
    { None, Some([type |-> "string", val |-> "sh command"]),
      Some([type |-> "number", val |-> "42"]) }

\* Value::as_str
as_str(v) == IF v.type = "string" THEN Some(v.val) ELSE None

\* args.get("command").and_then(|v| v.as_str())
CommandOf(args) == IF IsSome(args.command) THEN as_str(Unwrap(args.command)) ELSE None

ShellArgs == { [command |-> c, timeout |-> a] : c \in CommandArgs, a \in TimeoutArgs }

\* ctx.workspace
Workspaces == { None, Some("workspace"), Some("no such directory") }

\* How long a command runs: around each timeout there is.
Durations ==
    1..(MaxTimeoutArg + 1) \cup { DefaultTimeout - 1, DefaultTimeout, DefaultTimeout + 1 }

\* ExitStatus::code(): Some(code), or None when a signal ended the process.
ExitStatuses == { Some(0), Some(1), Some(42), None }

\* What running the command does: whether sh can be started, how long it
\* runs, what it writes and how it ends.
Commands ==
    { [spawns |-> sp, duration |-> d, stdout |-> out, stderr |-> err, status |-> st] :
        sp \in BOOLEAN, d \in Durations,
        out \in { <<>>, <<"stdout text">> }, err \in { <<>>, <<"stderr text">> },
        st \in ExitStatuses }

\* PicoError::Tool(msg)
ToolErr(msg) == [tag |-> "Err", kind |-> "Tool", msg |-> msg]

MissingCommand == ToolErr(<<"Missing 'command' argument">>)
TimedOut(secs) == ToolErr(<<"Command timed out after ", ToString(secs), "s">>)
FailedToExecute(e) == ToolErr(<<"Failed to execute command: ", e>>)

Separator == "\n--- stderr ---\n"

\* format!("\n[Exit code: {}]", exit_code)
ExitCodeNote(exit_code) == <<"\n[Exit code: ", ToString(exit_code), "]">>

\* output.status.success()
Success(status) == status = Some(0)

\* status.code().unwrap_or(-1)
ExitCode(status) == IF IsSome(status) THEN Unwrap(status) ELSE -1

\* The exit status is left out of the text.
BuildResult_NoExitCode(output) ==
    LET afterStdout == IF output.stdout # <<>> THEN output.stdout ELSE <<>>
    IN IF output.stderr # <<>>
       THEN (IF afterStdout # <<>> THEN Append(afterStdout, Separator) ELSE afterStdout)
              \o output.stderr
       ELSE afterStdout

\* stdout and stderr are joined without the separator.
BuildResult_NoSeparator(output) ==
    LET afterStdout == IF output.stdout # <<>> THEN output.stdout ELSE <<>>
        afterStderr == IF output.stderr # <<>> THEN afterStdout \o output.stderr
                       ELSE afterStdout
    IN IF ~Success(output.status)
       THEN afterStderr \o ExitCodeNote(ExitCode(output.status))
       ELSE afterStderr

\* Lines 98-118: the result string, as the pieces pushed onto it.
BuildResult(output) ==
    LET afterStdout == IF output.stdout # <<>> THEN output.stdout ELSE <<>>
        afterStderr ==
            IF output.stderr # <<>>
            THEN (IF afterStdout # <<>> THEN Append(afterStdout, Separator) ELSE afterStdout)
                   \o output.stderr
            ELSE afterStdout
    IN IF ~Success(output.status)
       THEN afterStderr \o ExitCodeNote(ExitCode(output.status))
       ELSE afterStderr

ShellFrame ==
    UNCHANGED <<sessions, storage_path, disk, lock, pc, op, key, session, keys, ret,
                pre, track, saved, LoopVars, prev, round>>

\* tool.execute(args, &ctx), for a command that will behave as cmd.
Shell_Call ==
    /\ shell.pc = "none"
    /\ \E args \in ShellArgs, ws \in Workspaces, cmd \in Commands :
         shell' = [shell EXCEPT !.pc = "args", !.args = args, !.workspace = ws, !.cmd = cmd]
    /\ ShellFrame

\* The timeout argument is ignored: the default is always used.
Shell_Args_IgnoreTimeout ==
    /\ shell.pc = "args"
    /\ IF ~IsSome(CommandOf(shell.args))
       THEN shell' = [shell EXCEPT !.pc = "returned", !.ret = MissingCommand]
       ELSE shell' = [shell EXCEPT !.pc = "spawn", !.timeout_secs = DefaultTimeout]
    /\ ShellFrame

\* The command field is not validated: whatever it holds goes to sh.
Shell_Args_Unvalidated ==
    /\ shell.pc = "args"
    /\ shell' = [shell EXCEPT
                   !.pc = "spawn",
                   !.timeout_secs = IF shell.args.timeout.kind = "u64"
                                    THEN shell.args.timeout.val
                                    ELSE DefaultTimeout]
    /\ ShellFrame

\* Lines 73-78: the command argument, or the missing-argument error; the
\* timeout argument, or the default.
Shell_Args ==
    /\ shell.pc = "args"
    /\ IF ~IsSome(CommandOf(shell.args))
       THEN shell' = [shell EXCEPT !.pc = "returned", !.ret = MissingCommand]
       ELSE shell' = [shell EXCEPT
                        !.pc = "spawn",
                        !.timeout_secs = IF shell.args.timeout.kind = "u64"
                                         THEN shell.args.timeout.val
                                         ELSE DefaultTimeout]
    /\ ShellFrame

\* Lines 81-96: sh -c command is started in the workspace; a start that
\* fails is the inner error of the timeout.
Shell_Spawn ==
    /\ shell.pc = "spawn"
    /\ IF shell.cmd.spawns /\ shell.workspace # Some("no such directory")
       THEN shell' = [shell EXCEPT !.pc = "waiting", !.proc = "running", !.clock = 0]
       ELSE shell' = [shell EXCEPT !.pc = "returned",
                                   !.ret = FailedToExecute("No such file or directory")]
    /\ ShellFrame

\* A second passes, for the process and for the timer; while execute waits,
\* no second passes over the deadline or over the end of the process.
Shell_Tick ==
    /\ shell.proc = "running"
    /\ shell.clock < shell.cmd.duration
    /\ shell.pc = "waiting" => shell.clock < shell.timeout_secs
    /\ shell.pc \in { "waiting", "returned" }
    /\ shell' = [shell EXCEPT !.clock = @ + 1]
    /\ ShellFrame

\* The process ends of its own.
Shell_Exit ==
    /\ shell.proc = "running"
    /\ shell.clock = shell.cmd.duration
    /\ shell' = [shell EXCEPT !.proc = "exited"]
    /\ ShellFrame

\* Lines 93-120: cmd.output() is ready: the text is built and returned.
Shell_Output ==
    /\ shell.pc = "waiting"
    /\ shell.proc = "exited"
    /\ shell' = [shell EXCEPT !.pc = "returned", !.ret = Ok(BuildResult(shell.cmd))]
    /\ ShellFrame

\* Lines 93-95: the deadline has come with the process running: the output
\* future is dropped and the timeout error returned.  The command is built
\* without kill_on_drop (lines 81-90), so dropping the future does not kill
\* the process.
Shell_Timeout ==
    /\ shell.pc = "waiting"
    /\ shell.proc = "running"
    /\ shell.clock >= shell.timeout_secs
    /\ shell' = [shell EXCEPT !.pc = "returned", !.ret = TimedOut(shell.timeout_secs)]
    /\ ShellFrame

NextShell ==
    \/ Shell_Call
    \/ Shell_Args
    \/ Shell_Spawn
    \/ Shell_Tick
    \/ Shell_Exit
    \/ Shell_Output
    \/ Shell_Timeout

\* The session store plays no part: a manager without storage, untouched.
InitShell ==
    /\ StoreInit({})
    /\ storage_path = None
    /\ round = NoRound
    /\ shell = NoShell

SpecShell == InitShell /\ [][NextShell]_vars

\* ------------------------------------------------------ the agent loop
\* The loop's handling of one inbound message, as far as the session store
\* is concerned: wait for the session key's turn, load the session, append
\* the user message, save, let the next round in.  The rounds of one key are
\* served first come, first served; rounds of different keys run in parallel.

\* Inbound messages per session key in one run.
MaxInbound == 3

AgentKeys == { <<"a", ":">>, <<"b">> }

\* The bus delivers the next message for session key k; a round (task t) is
\* spawned for it and queues for the key.
Loop_Inbound(t, k) ==
    /\ pc[t] = "idle"
    /\ Len(arrived[k]) < MaxInbound
    /\ LET n == Len(arrived[k]) + 1
       IN /\ inbound' = [inbound EXCEPT ![t] = Some([session_key |-> k, content |-> n])]
          /\ arrived' = [arrived EXCEPT ![k] = Append(@, n)]
    /\ queue' = [queue EXCEPT ![k] = Append(@, t)]
    /\ pc' = [pc EXCEPT ![t] = "loop_wait"]
    /\ UNCHANGED <<sessions, storage_path, disk, lock, op, key, session, keys, ret,
                   pre, track, saved, holder, prev, ToolVars>>

\* The round at the head of the key's queue takes the key and calls
\* get_or_create.
Loop_Acquire(t) ==
    /\ pc[t] = "loop_wait"
    /\ LET k == Unwrap(inbound[t]).session_key
       IN /\ holder[k] = NoTask
          /\ queue[k] # <<>>
          /\ Head(queue[k]) = t
          /\ holder' = [holder EXCEPT ![k] = t]
          /\ queue' = [queue EXCEPT ![k] = Tail(@)]
          /\ key' = [key EXCEPT ![t] = k]
    /\ pc' = [pc EXCEPT ![t] = FirstPc("get_or_create")]
    /\ op' = [op EXCEPT ![t] = "get_or_create"]
    /\ UNCHANGED <<sessions, storage_path, disk, lock, session, keys, ret,
                   pre, track, saved, inbound, arrived, prev, ToolVars>>

\* The round is over: the task is free and the key passes on.
EndRound(t) ==
    /\ holder' = [holder EXCEPT ![Unwrap(inbound[t]).session_key] = NoTask]
    /\ inbound' = [inbound EXCEPT ![t] = None]
    /\ pc' = [pc EXCEPT ![t] = "idle"]
    /\ op' = [op EXCEPT ![t] = "none"]
    /\ key' = [key EXCEPT ![t] = NoKey]
    /\ session' = [session EXCEPT ![t] = None]
    /\ ret' = [ret EXCEPT ![t] = NoRet]

\* The session is loaded: append the user message and call save.  A load
\* error ends the round.
Loop_AppendUser(t) ==
    /\ pc[t] = "done"
    /\ op[t] = "get_or_create"
    /\ IsSome(inbound[t])
    /\ IF ret[t].tag = "Ok"
       THEN /\ session' = [session EXCEPT ![t] =
                 Some(add_message(ret[t].val, Message_user(Unwrap(inbound[t]).content)))]
            /\ pc' = [pc EXCEPT ![t] = FirstPc("save")]
            /\ op' = [op EXCEPT ![t] = "save"]
            /\ ret' = [ret EXCEPT ![t] = NoRet]
            /\ UNCHANGED <<key, inbound, holder>>
       ELSE EndRound(t)
    /\ UNCHANGED <<sessions, storage_path, disk, lock, keys, pre, track, saved,
                   queue, arrived, prev, ToolVars>>

\* save has returned: the round ends.
Loop_Done(t) ==
    /\ pc[t] = "done"
    /\ op[t] = "save"
    /\ IsSome(inbound[t])
    /\ EndRound(t)
    /\ UNCHANGED <<sessions, storage_path, disk, lock, keys, pre, track, saved,
                   queue, arrived, prev, ToolVars>>

\* Rounds on a manager that starts empty: a key's session stays cached from
\* its first round on, so the rounds never read the disk.
NextAgent ==
    \E t \in Tasks :
        \/ \E k \in AgentKeys : Loop_Inbound(t, k)
        \/ Loop_Acquire(t)
        \/ GetOrCreate_ReadLock(t)
        \/ GetOrCreate_Cached(t)
        \/ GetOrCreate_Exists(t)
        \/ GetOrCreate_WriteLockNew(t)
        \/ GetOrCreate_InsertNew(t)
        \/ Loop_AppendUser(t)
        \/ save(t)
        \/ Loop_Done(t)

SpecAgent == Init /\ [][NextAgent]_vars

\* ===================================================================
\* Claims
\* ===================================================================

\* The call of operation o, made alone, has returned.
Returned(o) == pc[SeqTask] = "done" /\ op[SeqTask] = o /\ IsSome(pre)

\* C1: get_or_create(key) follows a fixed lookup order.  With the cache and
\* the disk as they were when the call began: a cached key yields the cached
\* session and leaves the cache alone; otherwise, with a storage path and a
\* file under the key's sanitized name, the call yields the session that file
\* deserializes to and caches it under key (or returns the read or parse
\* error and leaves the cache alone); otherwise it yields Session::new(key)
\* and caches it under key.  At no point of the call does the disk change.
C1_LookupOrder ==
    LET t == SeqTask
        k == key[t]
        r == ret[t]
        was == Unwrap(pre)
        file == was.disk[FileOf(k)]
    IN /\ (op[t] = "get_or_create" /\ IsSome(pre)) => disk = was.disk
       /\ Returned("get_or_create") =>
            IF IsSome(was.sessions[k])
            THEN /\ r = Ok(Unwrap(was.sessions[k]))
                 /\ sessions = was.sessions
            ELSE IF Persist /\ IsSome(file)
            THEN LET parsed == Deserialize(Unwrap(file))
                 IN /\ r.tag \in { "Ok", "Err" }
                    /\ r.tag = "Ok" =>
                         /\ parsed.tag = "Ok"
                         /\ r.val = parsed.val
                         /\ sessions = [was.sessions EXCEPT ![k] = Some(parsed.val)]
                    /\ r.tag = "Err" =>
                         /\ sessions = was.sessions
                         /\ r.kind \in { "Io", "Json" }
                         /\ r.kind = "Json" => parsed.tag = "Err"
            ELSE /\ r = Ok(Session_new(k))
                 /\ sessions = [was.sessions EXCEPT ![k] = Some(Session_new(k))]

\* A get_or_create of a key with an illegal character has been served from
\* the file under the sanitized name.
C1_Witness ==
    /\ Returned("get_or_create")
    /\ key[SeqTask] = <<"a", ":">>
    /\ ~IsSome(Unwrap(pre).sessions[key[SeqTask]])
    /\ IsSome(Unwrap(pre).disk[FileOf(key[SeqTask])])
    /\ ret[SeqTask].tag = "Ok"
    /\ ret[SeqTask].val.messages # <<>>

\* The session a returned get or get_or_create handed out, if any.
Reloaded ==
    LET r == ret[SeqTask]
    IN IF r.tag # "Ok" THEN None
       ELSE IF op[SeqTask] = "get" THEN r.val
       ELSE Some(r.val)

\* The reload of key[SeqTask] has returned the messages of rec, the record of
\* the key's last save; it may fail with an I/O error only when it had to
\* read the disk.
ReloadGives(rec) ==
    \/ /\ IsSome(Reloaded)
       /\ Unwrap(Reloaded).messages = rec.session.messages
    \/ /\ ret[SeqTask] = Err("Io")
       /\ ~IsSome(Unwrap(pre).sessions[key[SeqTask]])

\* C2 as stated: after save(s) has succeeded, and with no other save or
\* delete of s.key since (nor a clear_cache of a manager without storage
\* path), the session that get or get_or_create of s.key returns has s's
\* messages.  (A reload that returns an error is not held against the claim.)
C2_RoundTrip_AsStated ==
    (Returned("get") \/ Returned("get_or_create")) =>
        LET rec == saved[key[SeqTask]]
        IN (IsSome(rec) /\ ret[SeqTask].tag = "Ok") =>
              /\ IsSome(Reloaded)
              /\ Unwrap(Reloaded).messages = Unwrap(rec).session.messages

\* C2, amended: the same, provided no save or delete of a key stored under the
\* same sanitized file name came in between either.
C2_RoundTrip ==
    (Returned("get") \/ Returned("get_or_create")) =>
        LET rec == saved[key[SeqTask]]
        IN (IsSome(rec) /\ Unwrap(rec).clean) => ReloadGives(Unwrap(rec))

\* The whole conversation, saved under a key with an illegal character, has
\* been read back from the disk by a manager with an empty cache.
C2_Witness ==
    /\ Returned("get")
    /\ key[SeqTask] = <<"a", ":">>
    /\ IsSome(saved[key[SeqTask]])
    /\ Unwrap(saved[key[SeqTask]]).clean
    /\ ~IsSome(Unwrap(pre).sessions[key[SeqTask]])
    /\ IsSome(Reloaded)
    /\ Unwrap(Reloaded).messages = Transcript(MaxTranscript)

IsUser(m) == m.role = "User"

\* The contents of the user messages of the cached session of key k, in order.
CachedUserContents(k) ==
    IF IsSome(sessions[k])
    THEN LET users == SelectSeq(Unwrap(sessions[k]).messages, IsUser)
         IN [i \in DOMAIN users |-> users[i].content]
    ELSE <<>>

IsPrefix(p, q) == Len(p) <= Len(q) /\ \A i \in DOMAIN p : p[i] = q[i]

RoundsOf(k) == { t \in Tasks : IsSome(inbound[t]) /\ Unwrap(inbound[t]).session_key = k }

C4_FailedSaveLeavesCache ==
    (Returned("save") /\ ret[SeqTask].tag = "Err") => sessions = Unwrap(pre).sessions

\* The tasks that have called save for key k.
SaversOf(k) ==
    { t \in Tasks : op[t] = "save" /\ IsSome(session[t]) /\ Unwrap(session[t]).key = k }

\* C5: with a storage path and no I/O error, once two or more concurrent
\* saves of one key have all completed, the cache entry and the file of the
\* key hold the same session, one of those saved.
C5_ConcurrentSavesAgree ==
    \A k \in ConcurrentKeys :
        ( /\ Persist
          /\ Cardinality(SaversOf(k)) >= 2
          /\ \A t \in SaversOf(k) : pc[t] = "done" /\ ret[t] = Ok("unit") )
        => \E t \in SaversOf(k) :
              /\ sessions[k] = Some(Unwrap(session[t]))
              /\ disk[FileOf(k)] = Some(Serialize(Unwrap(session[t])))

\* C6: of two consecutive get_or_create(key) calls with nothing in between,
\* the second returns the session the first returned and leaves the cache as
\* it found it, and the disk is after the second call what it was before the
\* first.
C6_Idempotent ==
    (Returned("get_or_create") /\ IsSome(prev)) =>
        LET first == Unwrap(prev)
        IN (first.key = key[SeqTask] /\ first.ret.tag = "Ok") =>
              /\ ret[SeqTask] = first.ret
              /\ sessions = Unwrap(pre).sessions
              /\ Cardinality({ k \in Keys : IsSome(sessions[k]) })
                   = Cardinality({ k \in Keys : IsSome(Unwrap(pre).sessions[k]) })
              /\ Unwrap(pre).disk = first.disk
              /\ disk = first.disk

\* The first of two consecutive get_or_create calls found the key neither in
\* the cache nor on the disk of its storage directory and created the session;
\* the second has returned.
C6_Witness ==
    /\ Returned("get_or_create")
    /\ IsSome(prev)
    /\ Unwrap(prev).key = key[SeqTask]
    /\ key[SeqTask] = <<"a", ":">>
    /\ Persist
    /\ ~IsSome(Unwrap(prev).before)
    /\ ~IsSome(Unwrap(prev).disk[FileOf(key[SeqTask])])
    /\ ret[SeqTask] = Ok(Session_new(key[SeqTask]))

\* What exists(k) answers in a cache c over a disk d (lines 358-374).
ExistsIn(c, d, k) == IsSome(c[k]) \/ (Persist /\ IsSome(d[FileOf(k)]))

\* C7: get never creates.  For a key that was neither cached nor on disk when
\* the call began, get returns None and leaves cache and disk as they were, so
\* that cache_size is the same and exists(key) still false.  For a key that
\* was present it returns what get_or_create returns: the cached session, or
\* the session its file deserializes to, which it caches (or the read or parse
\* error).
C7_GetNeverCreates ==
    LET t == SeqTask
        k == key[t]
        r == ret[t]
        was == Unwrap(pre)
    IN Returned("get") =>
         /\ disk = was.disk
         /\ IF ~ExistsIn(was.sessions, was.disk, k)
            THEN /\ r = Ok(None)
                 /\ sessions = was.sessions
                 /\ ~ExistsIn(sessions, disk, k)
            ELSE IF IsSome(was.sessions[k])
            THEN /\ r = Ok(was.sessions[k])
                 /\ sessions = was.sessions
            ELSE LET parsed == Deserialize(Unwrap(was.disk[FileOf(k)]))
                 IN /\ r.tag \in { "Ok", "Err" }
                    /\ r.tag = "Ok" =>
                         /\ parsed.tag = "Ok"
                         /\ r.val = Some(parsed.val)
                         /\ sessions = [was.sessions EXCEPT ![k] = Some(parsed.val)]
                    /\ r.tag = "Err" =>
                         /\ sessions = was.sessions
                         /\ r.kind \in { "Io", "Json" }
                         /\ r.kind = "Json" => parsed.tag = "Err"

\* A manager with a storage path that holds other sessions has been asked for
\* a key it has neither cached nor on disk.
C7_Witness ==
    /\ Returned("get")
    /\ Persist
    /\ ~ExistsIn(Unwrap(pre).sessions, Unwrap(pre).disk, key[SeqTask])
    /\ \E j \in Keys : IsSome(sessions[j])
    /\ \E j \in Keys : IsSome(disk[FileOf(j)])
    /\ ret[SeqTask] = Ok(None)

\* C8: after delete(key) has returned Ok the key is not in the cache, there is
\* no file under its sanitized name, and exists(key) is false (so that, by C7,
\* get(key) is None); the other cache entries and files are as they were.
\* delete returns Ok whenever there is no storage path or no such file,
\* whether or not the key was cached.
C8_DeleteRemoves ==
    LET t == SeqTask
        k == key[t]
        was == Unwrap(pre)
    IN Returned("delete") =>
         /\ ret[t] \in { Ok("unit"), Err("Io") }
         /\ ret[t] = Ok("unit") =>
              /\ ~IsSome(sessions[k])
              /\ Persist => ~IsSome(disk[FileOf(k)])
              /\ ~ExistsIn(sessions, disk, k)
              /\ sessions = [was.sessions EXCEPT ![k] = None]
              /\ disk = IF Persist THEN [was.disk EXCEPT ![FileOf(k)] = None] ELSE was.disk
         /\ (~Persist \/ ~IsSome(was.disk[FileOf(k)])) => ret[t] = Ok("unit")

\* A session that was both cached and on disk, under a key with an illegal
\* character, has been deleted.
C8_Witness ==
    /\ Returned("delete")
    /\ key[SeqTask] = <<"a", ":">>
    /\ IsSome(Unwrap(pre).sessions[key[SeqTask]])
    /\ Persist
    /\ IsSome(Unwrap(pre).disk[FileOf(key[SeqTask])])
    /\ ret[SeqTask] = Ok("unit")

\* The elements of a sequence.
Range(q) == { q[i] : i \in DOMAIN q }

\* The keys whose sessions have been saved.
SavedKeys == { k \in Keys : IsSome(saved[k]) }

\* C9: with a storage path, when the saved sessions are all there is in the
\* cache and in the storage directory's .json files, list returns exactly
\* their keys, each once, whether or not the cache has been cleared.
C9_ListIsSavedKeys ==
    ( /\ Returned("list")
      /\ Persist
      /\ ret[SeqTask].tag = "Ok"
      /\ { k \in Keys : IsSome(sessions[k]) } \subseteq SavedKeys
      /\ \A f \in FileNames :
           (f.ext = "json" /\ IsSome(disk[f])) => \E k \in SavedKeys : f = FileOf(k) )
    => /\ Range(ret[SeqTask].val) = SavedKeys
       /\ Len(ret[SeqTask].val) = Cardinality(SavedKeys)

\* The file stems of the .json files of the disk d.
JsonStems(d) == { f.stem : f \in { g \in FileNames : g.ext = "json" /\ IsSome(d[g]) } }

\* C10: the sequence list returns is in ascending order without repetition,
\* and its elements are the keys in the cache and, with a storage path, the
\* file stems of the .json files of the storage directory, and nothing else.
C10_ListSortedUnion ==
    Returned("list") =>
        LET r == ret[SeqTask]
        IN /\ r.tag \in { "Ok", "Err" }
           /\ r.tag = "Err" => Persist /\ r.kind = "Io"
           /\ r.tag = "Ok" =>
                /\ \A i \in 1..(Len(r.val) - 1) : KeyLess(r.val[i], r.val[i + 1])
                /\ \A i, j \in DOMAIN r.val : r.val[i] = r.val[j] => i = j
                /\ Range(r.val) =
                     { k \in Keys : IsSome(sessions[k]) }
                       \cup (IF Persist THEN JsonStems(disk) ELSE {})

\* list has merged a key that is only cached, a stem that is only on disk,
\* and a key that is both cached and on disk and so listed once; the foreign
\* file of the directory is not listed.
C10_Witness ==
    /\ Returned("list")
    /\ Persist
    /\ ret[SeqTask] = Ok(<< <<"a", ":">>, <<"a", "_">>, <<"b">> >>)
    /\ ~IsSome(sessions[<<"a", "_">>])
    /\ IsSome(sessions[<<"b">>])
    /\ IsSome(disk[FileOf(<<"b">>)])
    /\ IsSome(disk[ForeignFile])

\* The last save of key[SeqTask] succeeded, and no save or delete of a key
\* with the same file name has been called since.
SavedClean ==
    /\ IsSome(saved[key[SeqTask]])
    /\ Unwrap(saved[key[SeqTask]]).clean

\* C11: every operation reaches a key's record under the same sanitized file
\* name.  exists(key) answers true exactly when the key is cached or, with a
\* storage path, a file exists under its sanitized name, and changes nothing.
\* Right after save(s), with or without a clear_cache in between (and a
\* storage path), exists(s.key) is true and get(s.key) returns s (unless the
\* read of the file fails); right after a successful delete(key), exists(key)
\* is false.
C11_SanitizedConsistently ==
    LET t == SeqTask
        k == key[t]
        was == Unwrap(pre)
    IN /\ Returned("exists") =>
            /\ ret[t] = Ok(ExistsIn(was.sessions, was.disk, k))
            /\ sessions = was.sessions
            /\ disk = was.disk
            /\ SavedClean => ret[t] = Ok(TRUE)
            /\ ( IsSome(prev) /\ Unwrap(prev).op = "delete" /\ Unwrap(prev).key = k
                 /\ Unwrap(prev).ret = Ok("unit") ) => ret[t] = Ok(FALSE)
       /\ (Returned("get") /\ SavedClean) =>
            \/ ret[t] = Ok(Some(Unwrap(saved[k]).session))
            \/ ret[t] = Err("Io") /\ ~IsSome(was.sessions[k])

\* A session saved under a key with an illegal character, and dropped from
\* the cache since, has been found by exists through its file.
C11_Witness ==
    /\ Returned("exists")
    /\ key[SeqTask] = <<"a", ":">>
    /\ Persist
    /\ SavedClean
    /\ Unwrap(saved[key[SeqTask]]).session.messages # <<>>
    /\ ~IsSome(sessions[key[SeqTask]])
    /\ ret[SeqTask] = Ok(TRUE)

\* C12: the session get_or_create(key) returns, and the session get(key)
\* returns when it returns one, has key as its key field, and every cache
\* entry is stored under its session's key field.
C12_KeyFieldIsKey ==
    /\ \A k \in Keys : IsSome(sessions[k]) => Unwrap(sessions[k]).key = k
    /\ (Returned("get_or_create") /\ ret[SeqTask].tag = "Ok") =>
          ret[SeqTask].val.key = key[SeqTask]
    /\ (Returned("get") /\ ret[SeqTask].tag = "Ok" /\ IsSome(ret[SeqTask].val)) =>
          Unwrap(ret[SeqTask].val).key = key[SeqTask]

\* C13: failures are reported, never swallowed.  When get_or_create or get
\* has to load the key from its file, a file that does not deserialize makes
\* the call return an error; a result that is not an error carries the session
\* the file deserializes to, never a new empty session or None in its place;
\* and an error leaves the cache as it was.  save with a storage path returns
\* Ok only when the file holds the serialized session, and an I/O error
\* otherwise.
C13_FailuresReported ==
    LET t == SeqTask
        k == key[t]
        r == ret[t]
        was == Unwrap(pre)
    IN /\ ( (Returned("get_or_create") \/ Returned("get"))
            /\ ~IsSome(was.sessions[k]) /\ Persist /\ IsSome(was.disk[FileOf(k)]) ) =>
            LET parsed == Deserialize(Unwrap(was.disk[FileOf(k)]))
            IN /\ r.tag \in { "Ok", "Err" }
               /\ parsed.tag = "Err" => r.tag = "Err"
               /\ r.tag = "Ok" => parsed.tag = "Ok" /\ Reloaded = Some(parsed.val)
               /\ r.tag = "Err" => r.kind \in { "Io", "Json" } /\ sessions = was.sessions
       /\ Returned("save") =>
            LET s == Unwrap(session[t])
            IN /\ r \in { Ok("unit"), Err("Io") }
               /\ (r = Ok("unit") /\ Persist) => disk[FileOf(s.key)] = Some(Serialize(s))
               /\ ~Persist => r = Ok("unit")

\* get_or_create has found the key's file unreadable as a session (a write
\* that failed half way left it so) and has returned the parse error.
C13_Witness ==
    /\ Returned("get_or_create")
    /\ ~IsSome(Unwrap(pre).sessions[key[SeqTask]])
    /\ Persist
    /\ Unwrap(pre).disk[FileOf(key[SeqTask])] = Some(Garbage)
    /\ ret[SeqTask] = Err("Json")
    /\ ~IsSome(sessions[key[SeqTask]])

\* C14: when every task has run get_or_create(key), appended one message to
\* its copy and saved it, without any synchronization between the tasks, a
\* get(key) after all of them have finished returns a session of at least one
\* and at most NumTasks messages.
C14_WritersLeaveMessages ==
    (Returned("get") /\ AllWritersDone /\ key[SeqTask] = WriterKey) =>
        /\ IsSome(Reloaded)
        /\ Len(Unwrap(Reloaded).messages) >= 1
        /\ Len(Unwrap(Reloaded).messages) <= NumTasks

\* All tasks have finished and a write was lost: the session that get
\* returns has fewer messages than there were tasks.
C14_Witness ==
    /\ Returned("get")
    /\ AllWritersDone
    /\ IsSome(Reloaded)
    /\ Len(Unwrap(Reloaded).messages) >= 1
    /\ Len(Unwrap(Reloaded).messages) < NumTasks

\* The session the round is working on.
RoundSession == Unwrap(session[SeqTask])

\* The session of the round's key as the store holds it: in the cache, and
\* in the key's file.
PersistedSessions ==
    (IF IsSome(sessions[RoundKey]) THEN { Unwrap(sessions[RoundKey]) } ELSE {})
      \cup (IF IsSome(disk[FileOf(RoundKey)])
               /\ Deserialize(Unwrap(disk[FileOf(RoundKey)])).tag = "Ok"
            THEN { Deserialize(Unwrap(disk[FileOf(RoundKey)])).val }
            ELSE {})

\* C15: the round limit ends every round.  No round runs more than
\* MaxToolRounds tool rounds; when the limit is hit the loop appends the
\* synthesized Assistant message, persists the session and, the save having
\* succeeded, returns that message as the reply; and every round that has
\* started comes to its end (Done, or Failed on a round-fatal error),
\* whatever the provider answers.
C15_LimitInv ==
    /\ round.cycles <= MaxToolRounds
    /\ round.limit =>
         /\ round.cycles = MaxToolRounds
         /\ round.state \in { "Persisting", "Done", "Failed" }
         /\ RoundSession.messages[Len(RoundSession.messages)] = Message_assistant(LimitText)
    /\ (round.limit /\ round.state = "Done") =>
         /\ round.reply = Some(LimitText)
         /\ sessions[RoundKey] = Some(RoundSession)
         /\ Persist => disk[FileOf(RoundKey)] = Some(Serialize(RoundSession))
    /\ (round.limit /\ round.state = "Failed") => ret[SeqTask].tag = "Err"

C15_RoundLimitTerminates ==
    /\ []C15_LimitInv
    /\ (round.state = "Loading") ~> (round.state \in { "Done", "Failed" })

\* The provider has asked for tools in every answer; the round has ended at
\* the limit, with the limit message persisted on disk and sent as the reply.
C15_Witness ==
    /\ round.state = "Done"
    /\ round.limit
    /\ round.cycles = MaxToolRounds
    /\ Persist
    /\ round.reply = Some(LimitText)
    /\ Deserialize(Unwrap(disk[FileOf(RoundKey)])).val = RoundSession

\* Message i of msgs, if a Tool-role message, answers a ToolCall of an
\* earlier Assistant message j, and stands as many places after it as the
\* call stands in its list of ToolCalls.
Correlated(msgs, i) ==
    msgs[i].role = "Tool" =>
        \E j \in 1..(i - 1) :
            /\ msgs[j].role = "Assistant"
            /\ IsSome(msgs[j].tool_calls)
            /\ \E c \in DOMAIN Unwrap(msgs[j].tool_calls) :
                 /\ Unwrap(msgs[j].tool_calls)[c].id = Unwrap(msgs[i].tool_call_id)
                 /\ i = j + c

\* Every ToolCall of every Assistant message of msgs has its result in msgs.
Answered(msgs) ==
    \A j \in DOMAIN msgs :
        IsSome(msgs[j].tool_calls) =>
            \A c \in DOMAIN Unwrap(msgs[j].tool_calls) :
                /\ j + c <= Len(msgs)
                /\ msgs[j + c].role = "Tool"
                /\ msgs[j + c].tool_call_id = Some(Unwrap(msgs[j].tool_calls)[c].id)

\* C16: in the session the round works on and in every persisted session,
\* each Tool-role message follows the Assistant message whose ToolCall it
\* answers, in the order of that message's ToolCalls, in whatever order the
\* tools finished; and the provider is called, and the session persisted,
\* only with the results of every ToolCall appended.
C16_TranscriptOrdering ==
    /\ IsSome(session[SeqTask]) =>
         /\ \A i \in DOMAIN RoundSession.messages : Correlated(RoundSession.messages, i)
         /\ round.state \in { "BuildingContext", "AwaitingProvider", "Persisting", "Done" }
              => Answered(RoundSession.messages)
    /\ \A s \in PersistedSessions :
         /\ \A i \in DOMAIN s.messages : Correlated(s.messages, i)
         /\ Answered(s.messages)

\* Two tools ran and the second finished first; the persisted session has
\* their results in the order of the calls.
C16_Witness ==
    /\ round.state = "Done"
    /\ Persist
    /\ round.finished = <<2, 1>>
    /\ \E j \in DOMAIN RoundSession.messages :
         /\ IsSome(RoundSession.messages[j].tool_calls)
         /\ Len(Unwrap(RoundSession.messages[j].tool_calls)) = 2
    /\ Deserialize(Unwrap(disk[FileOf(RoundKey)])).val = RoundSession

\* execute has returned.
ShellReturned == shell.pc = "returned"

\* sh was started for the command.
ShellStarted ==
    /\ IsSome(CommandOf(shell.args))
    /\ shell.cmd.spawns
    /\ shell.workspace # Some("no such directory")

IsTimeoutError(r) == r.tag = "Err" /\ r.msg[1] = "Command timed out after "

IsSpawnError(r) == r.tag = "Err" /\ r.msg[1] = "Failed to execute command: "

\* C17: a command still running after the timeout (the 'timeout' argument,
\* or 60 when it is absent) makes execute return the error "Command timed
\* out after <that many>s"; that error is neither the spawn error nor the
\* missing-argument error; and a command that finishes before the timeout
\* never yields it.
C17_TimeoutErrorDistinct ==
    ShellReturned =>
      /\ \A secs \in 0..DefaultTimeout :
           /\ \/ shell.args.timeout = [kind |-> "u64", val |-> secs]
              \/ shell.args.timeout.kind = "absent" /\ secs = 60
           /\ ShellStarted
           => /\ shell.cmd.duration > secs => shell.ret = TimedOut(secs)
              /\ shell.cmd.duration < secs => ~IsTimeoutError(shell.ret)
      /\ IsTimeoutError(shell.ret) =>
           /\ ShellStarted
           /\ ~IsSpawnError(shell.ret)
           /\ shell.ret # MissingCommand
      /\ ~IsSome(CommandOf(shell.args)) =>
           shell.ret = MissingCommand /\ ~IsTimeoutError(shell.ret)
      /\ IsSome(CommandOf(shell.args)) /\ ~ShellStarted =>
           IsSpawnError(shell.ret) /\ ~IsTimeoutError(shell.ret)

\* Without a timeout argument, a command that runs for 61 seconds has timed
\* out after 60.
C17_Witness ==
    /\ ShellReturned
    /\ shell.args.timeout.kind = "absent"
    /\ shell.cmd.duration > DefaultTimeout
    /\ shell.ret = TimedOut(DefaultTimeout)

\* C18: in no state is the command's process running after execute has
\* returned the timeout error.
C18_TimeoutStopsProcess ==
    ShellReturned /\ IsTimeoutError(shell.ret) => shell.proc # "running"

\* text ends with the pieces of note.
EndsWith(text, note) ==
    /\ Len(text) >= Len(note)
    /\ SubSeq(text, Len(text) - Len(note) + 1, Len(text)) = note

\* C19: a command that was started and finished before the timeout gives Ok
\* whatever its exit status; the text of an Ok ends with "[Exit code: N]"
\* when the status is a non-zero N, with N = -1 when the process has no exit
\* code, and has no such annotation when the status is zero; and execute
\* returns an error only for a missing command argument, a spawn failure or
\* a timeout.
C19_FailureIsData ==
    ShellReturned =>
      /\ ShellStarted /\ shell.cmd.duration < shell.timeout_secs => shell.ret.tag = "Ok"
      /\ shell.ret.tag = "Ok" =>
           /\ ShellStarted
           /\ \A n \in { 1, 42 } :
                shell.cmd.status = Some(n) =>
                  EndsWith(shell.ret.val, <<"\n[Exit code: ", ToString(n), "]">>)
           /\ shell.cmd.status = None =>
                EndsWith(shell.ret.val, <<"\n[Exit code: ", "-1", "]">>)
           /\ shell.cmd.status = Some(0) =>
                \A i \in DOMAIN shell.ret.val : shell.ret.val[i] # "\n[Exit code: "
      /\ shell.ret.tag = "Err" =>
           \/ shell.ret = MissingCommand /\ ~IsSome(CommandOf(shell.args))
           \/ IsSpawnError(shell.ret) /\ IsSome(CommandOf(shell.args)) /\ ~ShellStarted
           \/ /\ IsTimeoutError(shell.ret)
              /\ ShellStarted
              /\ shell.cmd.duration >= shell.timeout_secs

\* A process ended by a signal, with output on both streams: Ok, and the
\* text ends with the annotation of -1.
C19_Witness ==
    /\ ShellReturned
    /\ shell.ret.tag = "Ok"
    /\ shell.cmd.status = None
    /\ shell.cmd.stdout # <<>>
    /\ shell.cmd.stderr # <<>>
    /\ EndsWith(shell.ret.val, <<"\n[Exit code: ", "-1", "]">>)

\* C20 as stated: the text is the standard output followed by the error
\* output, and error output that is not empty is under the separator line,
\* whether the standard output is empty or not.
C20_OutputLayout_AsStated ==
    ShellReturned /\ shell.ret.tag = "Ok" =>
      /\ IsPrefix(shell.cmd.stdout, shell.ret.val)
      /\ shell.cmd.stderr # <<>> =>
           IsPrefix(shell.cmd.stdout \o <<"\n--- stderr ---\n">> \o shell.cmd.stderr,
                    shell.ret.val)

\* C20: the text is the standard output followed by the error output; the
\* separator line stands between them exactly when neither is empty, and
\* error output after empty standard output begins the text without a
\* separator.
C20_OutputLayout ==
    ShellReturned /\ shell.ret.tag = "Ok" =>
      /\ shell.cmd.stdout # <<>> /\ shell.cmd.stderr # <<>> =>
           IsPrefix(shell.cmd.stdout \o <<"\n--- stderr ---\n">> \o shell.cmd.stderr,
                    shell.ret.val)
      /\ shell.cmd.stdout = <<>> \/ shell.cmd.stderr = <<>> =>
           /\ IsPrefix(shell.cmd.stdout \o shell.cmd.stderr, shell.ret.val)
           /\ \A i \in DOMAIN shell.ret.val : shell.ret.val[i] # "\n--- stderr ---\n"

\* A command that wrote only error output: the text begins with it.
C20_Witness ==
    /\ ShellReturned
    /\ shell.ret.tag = "Ok"
    /\ shell.cmd.stdout = <<>>
    /\ shell.cmd.stderr # <<>>
    /\ shell.ret.val[1] = shell.cmd.stderr[1]

\* C21: when the arguments have no 'command' field, or the field is not a
\* string, execute returns the Tool error whose message has "Missing
\* 'command'", and at no moment of the call is a process started.
C21_MissingCommandBeforeSpawn ==
    /\ shell.pc # "none" /\ (~IsSome(shell.args.command)
                              \/ Unwrap(shell.args.command).type # "string") =>
         /\ shell.proc = "none"
         /\ shell.pc \in { "args", "returned" }
         /\ ShellReturned =>
              /\ shell.ret.tag = "Err"
              /\ shell.ret.kind = "Tool"
              /\ shell.ret.msg = <<"Missing 'command' argument">>
    /\ ShellReturned /\ shell.ret = MissingCommand =>
         ~IsSome(shell.args.command) \/ Unwrap(shell.args.command).type # "string"

\* A command field holding a number: the call has returned the error, with
\* sh ready to start and no process started.
C21_Witness ==
    /\ ShellReturned
    /\ IsSome(shell.args.command)
    /\ Unwrap(shell.args.command).type = "number"
    /\ shell.cmd.spawns
    /\ shell.ret = MissingCommand
    /\ shell.proc = "none"

\* The positions at which a task waits for the disk: existence check, read,
\* write, removal, directory listing.
IoPcs ==
    { "goc_exists", "goc_read", "get_exists", "get_read", "save_write",
      "del_exists", "del_unlink", "list_readdir", "ex_disk" }

\* C22: a task that is at a disk operation of get_or_create, get, save,
\* delete, list or exists holds neither the read lock nor the write lock of
\* the cache; so when every running task is at a disk operation the lock is
\* free for whoever asks for the cache.
C22_NoLockAcrossIo ==
    /\ \A t \in Tasks : pc[t] \in IoPcs => lock.w # t /\ t \notin lock.r
    /\ (\A t \in Tasks : pc[t] \in IoPcs \cup { "idle", "done" }) =>
         lock = [w |-> NoTask, r |-> {}]

\* One task is writing the file of one key while another holds the read lock
\* for a lookup of the other key.
C22_Witness ==
    \E t, u \in Tasks :
        /\ pc[t] = "save_write"
        /\ pc[u] = "goc_cached"
        /\ u \in lock.r
        /\ sanitize_key(Unwrap(session[t]).key) # sanitize_key(key[u])

\* The positions at which an operation changes the cache or the disk.
StorePcs ==
    { "goc_insert_load", "goc_insert_new", "get_insert_load", "save_insert",
      "save_write", "del_remove", "del_unlink", "cc_clear" }

\* C23: a step in which the caller appends to a session that get or
\* get_or_create returned changes neither the cache nor the disk; and the
\* cache and the disk change only in a step of save, delete, clear_cache, or
\* in the cache fill of get or get_or_create.
C23_HandedOutAreCopies ==
    /\ [][ (\E t \in Tasks : Holds(t) /\ pc'[t] = "done" /\ ret'[t] # ret[t])
              => sessions' = sessions /\ disk' = disk ]_vars
    /\ [][ sessions' # sessions \/ disk' # disk
              => \E t \in Tasks :
                    /\ pc[t] \in StorePcs
                    /\ pc'[t] # pc[t]
                    /\ op[t] \in { "save", "delete", "clear_cache", "get", "get_or_create" } ]_vars

\* The caller has appended to the session get_or_create returned; the cache
\* entry and the disk record of the key are still those of the saved session.
C23_Witness ==
    /\ Holds(SeqTask)
    /\ op[SeqTask] = "get_or_create"
    /\ Persist
    /\ Held(SeqTask).messages # <<>>
    /\ sessions[key[SeqTask]] = Some(Session_new(key[SeqTask]))
    /\ disk[FileOf(key[SeqTask])] = Some(Serialize(Session_new(key[SeqTask])))

\* The call that returned before the running one was clear_cache.
AfterClear == IsSome(prev) /\ Unwrap(prev).op = "clear_cache"

\* The running get or get_or_create has returned the session last saved
\* under its key, or, having had to read the disk, an I/O error.
StillReturned ==
    \/ Reloaded = Some(Unwrap(saved[key[SeqTask]]).session)
    \/ /\ ret[SeqTask] = Err("Io")
       /\ ~IsSome(Unwrap(pre).sessions[key[SeqTask]])

\* The running get or exists has not found its key.
NotReported ==
    ret[SeqTask] = IF op[SeqTask] = "get" THEN Ok(None) ELSE Ok(FALSE)

\* C24 as stated: clear_cache leaves the cache empty and the disk as it was;
\* a session saved with a storage path is still returned by get and
\* get_or_create; and a key that is no longer cached and was never saved, or
\* any key no longer cached of a manager without storage path, is not
\* reported by exists or get.
C24_ClearCache_AsStated ==
    LET t == SeqTask
        k == key[t]
        was == Unwrap(pre)
    IN /\ Returned("clear_cache") => sessions = EmptyCache /\ disk = was.disk
       /\ Returned("cache_size") /\ AfterClear => ret[t] = Ok(0)
       /\ (Returned("get") \/ Returned("get_or_create")) /\ Persist /\ SavedClean =>
            StillReturned
       /\ ( /\ Returned("get") \/ Returned("exists")
            /\ ~IsSome(was.sessions[k])
            /\ ~Persist \/ k \notin ClearSavedKeys ) => NotReported

\* C24: the same, where a key never saved is not reported provided no key
\* with the same sanitized file name was saved either (and a saved session
\* is still returned provided no key with the same file name was saved or
\* deleted after it).
C24_ClearCache ==
    LET t == SeqTask
        k == key[t]
        was == Unwrap(pre)
    IN /\ Returned("clear_cache") => sessions = EmptyCache /\ disk = was.disk
       /\ Returned("cache_size") /\ AfterClear => ret[t] = Ok(0)
       /\ (Returned("get") \/ Returned("get_or_create")) /\ Persist /\ SavedClean =>
            StillReturned
       /\ ( /\ Returned("get") \/ Returned("exists")
            /\ ~IsSome(was.sessions[k])
            /\ ~Persist \/ Colliding(k) \cap ClearSavedKeys = {} ) => NotReported

\* Right after clear_cache, with a storage path, get has read the saved
\* conversation back from the disk.
C24_Witness ==
    /\ Returned("get")
    /\ AfterClear
    /\ Persist
    /\ SavedClean
    /\ Unwrap(pre).sessions = EmptyCache
    /\ ret[SeqTask] = Ok(Some(Unwrap(saved[key[SeqTask]]).session))
    /\ Unwrap(saved[key[SeqTask]]).session.messages # <<>>

\* The key the running operation of task t works on.
TargetKey(t) == IF op[t] = "save" THEN Unwrap(session[t]).key ELSE key[t]

\* C25: a step of get_or_create, get, save or delete on one key, taken while
\* other tasks are in the middle of their own operations, leaves the cache
\* entry and the disk record of every key with a different sanitized file
\* name as they were.
C25_OtherKeysUntouched ==
    [][ \A t \in Tasks :
          (pc'[t] # pc[t] /\ op[t] \in { "get_or_create", "get", "save", "delete" }) =>
             \A j \in Keys :
                sanitize_key(j) # sanitize_key(TargetKey(t)) =>
                   /\ sessions'[j] = sessions[j]
                   /\ disk'[FileOf(j)] = disk[FileOf(j)] ]_vars

\* A delete of one key has removed its cache entry and is at its file, with
\* the save of the other key completed in between: the other key's cache
\* entry and disk record are those of the save.
C25_Witness ==
    \E t, u \in Tasks :
        /\ op[t] = "delete"
        /\ pc[t] = "del_unlink"
        /\ op[u] = "save"
        /\ pc[u] = "done"
        /\ ret[u] = Ok("unit")
        /\ Persist
        /\ sanitize_key(TargetKey(u)) # sanitize_key(key[t])
        /\ sessions[TargetKey(u)] = session[u]
        /\ disk[FileOf(TargetKey(u))] = Some(Serialize(Unwrap(session[u])))
        /\ ~IsSome(sessions[key[t]])

\* C26: sanitize_key puts one underscore for each / \ : * ? " < > | and
\* leaves every other character as it is: the result is as long as the key,
\* has none of the nine characters, and sanitizing it again gives the same.
C26_SanitizeKey ==
    LET nine == { "/", "\\", ":", "*", "?", "\"", "<", ">", "|" }
        k == key[SeqTask]
        r == ret[SeqTask].val
    IN /\ pc[SeqTask] = "sanitized" =>
            /\ Len(r) = Len(k)
            /\ \A i \in 1..Len(k) : r[i] = IF k[i] \in nine THEN "_" ELSE k[i]
            /\ \A i \in 1..Len(r) : r[i] \notin nine
       /\ pc[SeqTask] = "sanitized_again" =>
            /\ r = k
            /\ Unwrap(prev).ret = Ok(k)

\* A key of two of the nine characters has been sanitized twice.
C26_Witness ==
    /\ pc[SeqTask] = "sanitized_again"
    /\ Unwrap(prev).key = <<"\\", "|">>
    /\ ret[SeqTask] = Ok(<<"_", "_">>)

\* C27: once save(s) has returned Ok, and until the next save of s.key is
\* called, the cache entry of s.key is s, whatever get and get_or_create
\* calls were under way when the save was made: none of them puts a new
\* session or an older disk record in its place, and so every lookup that
\* begins afterwards returns s.
C27_SaveNotUndone ==
    \A k \in Keys :
        IsSome(saved[k]) /\ Unwrap(saved[k]).clean =>
            sessions[k] = Some(Unwrap(saved[k]).session)

\* C28: with a storage path, when a save of a session and a delete of its
\* key, made at the same time, have both returned Ok, the cache and the disk
\* agree: both hold the saved session or neither holds a session for the key.
C28_SaveDeleteAgree ==
    \A u \in Tasks :
        ( /\ Persist
          /\ pc[SeqTask] = "done" /\ op[SeqTask] = "save" /\ ret[SeqTask] = Ok("unit")
          /\ pc[u] = "done" /\ op[u] = "delete" /\ ret[u] = Ok("unit")
          /\ key[u] = Unwrap(session[SeqTask]).key
          /\ \A v \in Tasks \ { SeqTask, u } : pc[v] = "idle" ) =>
            LET s == Unwrap(session[SeqTask])
            IN \/ /\ sessions[s.key] = Some(s)
                  /\ disk[FileOf(s.key)] = Some(Serialize(s))
               \/ /\ sessions[s.key] = None
                  /\ disk[FileOf(s.key)] = None

====
